---------------------------- MODULE Spec2Model ----------------------------
(***************************************************************************)
(* A model of the import resolver of wesl-rs (crates/wesl/src/import.rs,   *)
(* with the module paths of crates/wesl/src/resolve.rs and the identifier  *)
(* cells of crates/wgsl-parse/src/syntax.rs).                              *)
(*                                                                         *)
(* A path is the sequence of its components; "/" is the root component,    *)
(* "." the current directory and ".." the parent directory.  An identifier *)
(* is a cell: a record that says where the parser created it.  Two cells   *)
(* are equal iff they are the same cell, whatever their names.             *)
(***************************************************************************)
EXTENDS Integers, Sequences, FiniteSets, TLC

VARIABLES
    input,      \* the arguments of the call: mode, root unit, resource, keep, resolver
    modules,    \* Resolutions.modules: Resource -> Module
    order,      \* Resolutions.order
    requests,   \* the calls resolver.resolve_module has received, in order
    stack,      \* resolve_eager: the active calls of resolve_module, innermost last
    lz,         \* resolve_lazy: the worklists and the position in the loops
    result,     \* what the call has returned, if it has
    assembled,  \* the unit the last call of assemble returned
    renamed,    \* the cells Ident::rename has written, with the name they hold
    mangler,    \* the mangler: how often it was asked for each (resource, name),
                \* and the calls of Resolutions::mangle so far
    calls,      \* how many calls of resolve_eager / resolve_lazy were made
    cr,         \* a CacheResolver over a FileResolver: the files, the cache, and
                \* what the two have been asked and have answered
    fcall,      \* a call, on its own, of a function or method of resolve.rs:
                \* the receiver, the function, its argument and what it returned
    walks,      \* resolve_lazy: how often resolve_decl has gone past its test
                \* of treated_idents, per declaration <<module, index>>
    run1        \* what an earlier run on the same arguments returned: the
                \* order of its Resolutions and the unit assembled from it

vars == <<input, modules, order, requests, stack, lz, result, assembled, renamed, mangler, calls, cr, fcall, walks, run1>>

-----------------------------------------------------------------------------
(* Bounds of the checked instances.                                        *)

\* Deepest nesting of import collections in the units the instances draw from.
MaxNest == 1

\* Most calls of Resolutions::mangle on one Resolutions.
MaxMangle == 1

\* Most calls of resolve_eager in a row, each on the root the one before left.
MaxCalls == 2

\* Most successful calls of the wrapped resolver's resolve_source for one resource.
MaxFetch == 2

\* Most calls of Router::mount_resolver on one Router.
MaxMounts == 3

\* Most components, after the root, of a path handed to Resource::new.
MaxLen == 3

-----------------------------------------------------------------------------
(* Paths: std::path as clean_path uses it.                                 *)

RootDir == "/"
CurDir == "."
ParentDir == ".."

\* Option<PathBuf>::None of TypeExpression.path; no parsed path is empty.
NoPath == <<>>

HasRoot(p) == Len(p) > 0 /\ p[1] = RootDir

RECURSIVE DropCurDir(_)
DropCurDir(s) ==
    IF s = <<>> THEN <<>>
    ELSE IF Head(s) = CurDir THEN DropCurDir(Tail(s))
    ELSE <<Head(s)>> \o DropCurDir(Tail(s))

\* Path::components: a "." is a component only when it leads the path.
Components(p) == IF p = <<>> THEN <<>> ELSE <<Head(p)>> \o DropCurDir(Tail(p))

\* PathBuf::push: an absolute argument replaces the path.
PathPush(p, q) == IF HasRoot(q) THEN q ELSE p \o q

\* PathBuf::pop succeeds iff the path has a parent: it is not empty and does
\* not end in the root.
CanPop(p) == p # <<>> /\ p[Len(p)] # RootDir
Pop(p) == SubSeq(p, 1, Len(p) - 1)

RECURSIVE CleanFrom(_, _)
CleanFrom(res, comps) ==
    IF comps = <<>> THEN res
    ELSE LET comp == Head(comps)
             next == CASE comp = RootDir -> PathPush(res, <<comp>>)
                       [] comp = CurDir -> IF res = <<>> THEN PathPush(res, <<comp>>) ELSE res
                       [] comp = ParentDir -> IF CanPop(res) THEN Pop(res)
                                              ELSE PathPush(res, <<comp>>)
                       [] OTHER -> PathPush(res, <<comp>>)
         IN CleanFrom(next, Tail(comps))

IsNormal(comp) == comp \notin {RootDir, CurDir, ParentDir}

\* Path::file_stem of a file name: the name before its last dot, the whole
\* name when it has no dot or only a leading one.
file_stem(name) ==
    LET dots == {i \in 1..Len(name) : SubSeq(name, i, i) = "."}
        last == IF dots = {} THEN 0 ELSE CHOOSE i \in dots : \A j \in dots : j <= i
    IN IF name = ParentDir \/ last <= 1 THEN name ELSE SubSeq(name, 1, last - 1)

\* Path::with_extension(""): a path that ends in a file name is cut at the
\* end of the stem of that name.
with_extension_empty(path) ==
    CHOOSE cut \in {IF comps # <<>> /\ IsNormal(comps[Len(comps)])
                    THEN [comps EXCEPT ![Len(comps)] = file_stem(comps[Len(comps)])]
                    ELSE path : comps \in {Components(path)}} : TRUE

\* clean_path: res after the loop over the components of the path cut at
\* its stem.
clean_path(path) ==
    CHOOSE res \in {CleanFrom(<<>>, comps) :
                        comps \in {Components(with_extension_empty(path))}} : TRUE

ResourceNew(path) == clean_path(path)
ResourcePush(r, item) == PathPush(r, <<item>>)
ResourceJoin(r, suffix) == clean_path(PathPush(r, suffix))

StartsWithDot(p) == Len(p) > 0 /\ p[1] \in {CurDir, ParentDir}

\* (Not the code: a relative import path taken as it is.)
absolute_resource_unjoined(import_path, parent) == ResourceNew(import_path)

absolute_resource(import_path, parent) ==
    IF StartsWithDot(import_path) THEN ResourceJoin(parent, import_path)
    ELSE ResourceNew(import_path)

-----------------------------------------------------------------------------
(* Identifier cells.                                                       *)

\* k says which syntax node created the cell: a declaration ("decl", i-th of
\* module m), an import item ("item") or its rename ("rename", i-th leaf of
\* m's imports), a type expression ("use", j-th of declaration i), or a cell
\* the caller made ("keep").
Cell(k, m, i, j, name) == [k |-> k, m |-> m, i |-> i, j |-> j, name |-> name]

\* Option<Ident>::None (no rename; a declaration without identifier).
NoIdent == Cell("none", <<>>, 0, 0, "")

\* Ident::name
Name(id) == id.name

EmptyMap == [x \in {} |-> 0]


-----------------------------------------------------------------------------
(* Syntax: the parts of a TranslationUnit the resolver reads or writes.    *)

\* TypeExpression: an optional path and an identifier.  Template arguments
\* are type expressions of the same declaration; tys lists them in the
\* order the walk reaches them.
TypeExpression(path, ident) == [path |-> path, ident |-> ident]

\* GlobalDeclaration: Declaration, TypeAlias, Struct and Function have an
\* identifier ("Named"), ConstAssert has none.  at is where the parser read
\* the declaration: module and index.
GlobalDeclaration(kind, ident, at, tys) ==
    [kind |-> kind, ident |-> ident, at |-> at, tys |-> tys]

is_const_assert(decl) == decl.kind = "ConstAssert"
HasIdent(decl) == decl.kind = "Named"

\* Import with ImportContent::Item(ImportItem {ident, rename}).
ImportItem(path, ident, rename) ==
    [path |-> path, kind |-> "Item", ident |-> ident, rename |-> rename, imports |-> <<>>]

\* Import with ImportContent::Collection(imports).
ImportCollection(path, imports) ==
    [path |-> path, kind |-> "Collection", ident |-> NoIdent, rename |-> NoIdent,
     imports |-> imports]

TranslationUnit(imports, directives, decls) ==
    [imports |-> imports, global_directives |-> directives, global_declarations |-> decls]

\* PathBuf::extend: push every component.
RECURSIVE PathExtend(_, _)
PathExtend(p, q) == IF q = <<>> THEN p ELSE PathExtend(PathPush(p, <<Head(q)>>), Tail(q))

-----------------------------------------------------------------------------
(* The import flattener.  Imports is a HashMap keyed by identifier cell:   *)
(* a later insert replaces an earlier one with the same cell.              *)

RECURSIVE imported_resources(_, _)
imported_resources(imports, parent_res) ==
    IF imports = <<>> THEN EmptyMap
    ELSE LET import == Head(imports)
             here ==
                 IF import.kind = "Item"
                 THEN LET resource == absolute_resource(import.path, parent_res)
                          ident == IF import.rename # NoIdent THEN import.rename
                                   ELSE import.ident
                      IN ident :> <<resource, import.ident>>
                 ELSE imported_resources(
                          [c \in 1..Len(import.imports) |->
                              [import.imports[c] EXCEPT
                                  !.path = PathExtend(import.path, import.imports[c].path)]],
                          parent_res)
         IN imported_resources(Tail(imports), parent_res) @@ here

-----------------------------------------------------------------------------
(* Module.                                                                 *)

\* Module::new with every declared identifier put into treated_idents.
ModuleNewAllTreated(source, resource) ==
    LET decls == source.global_declarations
        named == {i \in 1..Len(decls) : HasIdent(decls[i])}
    IN [source |-> source,
        resource |-> resource,
        idents |-> [id \in {decls[i].ident : i \in named} |->
                       CHOOSE i \in named : decls[i].ident = id],
        treated_idents |-> {decls[i].ident : i \in named},
        imports |-> imported_resources(source.imports, resource)]

\* Module::new.  treated_idents starts empty.
ModuleNew(source, resource) ==
    LET decls == source.global_declarations
        named == {i \in 1..Len(decls) : HasIdent(decls[i])}
    IN [source |-> source,
        resource |-> resource,
        idents |-> [id \in {decls[i].ident : i \in named} |->
                       CHOOSE i \in named : decls[i].ident = id],
        treated_idents |-> {},
        imports |-> imported_resources(source.imports, resource)]

\* Every declaration taken for a const_assert.
const_asserts_all(source) == 1..Len(source.global_declarations)

\* Only the indexes of the const_asserts of a unit.
const_asserts(source) ==
    {i \in 1..Len(source.global_declarations) :
        is_const_assert(source.global_declarations[i])}

-----------------------------------------------------------------------------
(* Errors and results.                                                     *)

NoError == [tag |-> "", res |-> <<>>, name |-> "", inner |-> ""]

\* ImportError::MissingDecl(Resource, String)
MissingDecl(res, name) == [tag |-> "MissingDecl", res |-> res, name |-> name, inner |-> ""]

\* ImportError::CircularDependency(Resource)
CircularDependency(res) ==
    [tag |-> "CircularDependency", res |-> res, name |-> "", inner |-> ""]

\* ImportError::DuplicateSymbol(String)
DuplicateSymbol(name) == [tag |-> "DuplicateSymbol", res |-> <<>>, name |-> name, inner |-> ""]

\* ImportError::ResolveError(e), made by `?` from the ResolveError e of the
\* resolver; inner names the variant of e and res its resource.
ResolveError(e) == [tag |-> "ResolveError", res |-> e.res, name |-> "", inner |-> e.tag]

\* What the resolvers of the instances answer for a module they do not have.
FileNotFound(resource) == [tag |-> "FileNotFound", res |-> resource]

\* ResolveError::Error(Diagnostic) of source_to_module: the source of the
\* resource does not parse.
ParseError(resource) == [tag |-> "Error", res |-> resource, name |-> "", inner |-> ""]

\* A resolver is a function of the resource: to the unit its source parses
\* to, or to the error with which resolve_source or source_to_module
\* returns.  Units: the resources it answers with a unit.
Units(resolver) == {m \in DOMAIN resolver : "tag" \notin DOMAIN resolver[m]}

\* A resolver call that answers an empty unit for a module it does not have.
resolve_module_or_empty(resolver, resource) ==
    [ok |-> TRUE,
     source |-> IF resource \in Units(resolver) THEN resolver[resource]
                ELSE TranslationUnit(<<>>, <<>>, <<>>),
     error |-> NoError]

\* Resolver::resolve_module of the resolver of the call: resolve_source(..)?
\* and source_to_module(..)?, each of which can return an error.
resolve_module(resolver, resource) ==
    IF resource \in Units(resolver)
    THEN [ok |-> TRUE, source |-> resolver[resource], error |-> NoError]
    ELSE [ok |-> FALSE, source |-> TranslationUnit(<<>>, <<>>, <<>>),
          error |-> IF resource \in DOMAIN resolver
                    THEN ResolveError(resolver[resource])
                    ELSE ResolveError(FileNotFound(resource))]

\* result.kind: "init" before the call, "running" during it, then "ok"
\* (Ok(resolutions): modules and order are the value returned), "err"
\* (Err(result.err)) or "panic" (the thread panicked).
Result(kind, err) == [kind |-> kind, err |-> err]

-----------------------------------------------------------------------------
(* Resolutions.                                                            *)

Resolutions(m, o) == [modules |-> m, order |-> o]

\* Resolutions::new
ResolutionsNew == Resolutions(EmptyMap, <<>>)

\* push_module with order.insert(0, resource) for order.push(resource).
push_module_front(resolutions, resource, module) ==
    Resolutions((resource :> module) @@ resolutions.modules,
                <<resource>> \o resolutions.order)

\* Resolutions::push_module
push_module(resolutions, resource, module) ==
    Resolutions((resource :> module) @@ resolutions.modules,
                Append(resolutions.order, resource))

-----------------------------------------------------------------------------
(* Classifying a type expression (the same code in both resolvers).        *)

\* resolve_inline_resource.  find_map takes the first import, in the order
\* of the hash map, whose alias has the name of the first segment: any of them.
resolve_inline_resource(path, parent_resource, imports) ==
    IF HasRoot(path)
    THEN LET prefix == Components(path)[2]
             found == {ident \in DOMAIN imports : Name(ident) = prefix}
         IN IF found = {} THEN {ResourceNew(path)}
            ELSE {ResourceJoin(ResourcePush(imports[ident][1], Name(imports[ident][2])),
                               SubSeq(Components(path), 3, Len(Components(path)))) :
                     ident \in found}
    ELSE {absolute_resource(path, parent_resource)}

\* The (ext_res, ext_id) a type expression stands for, or local: it "points
\* to a local decl".  imports.get(&ty.ident) looks the cell up, not the name.
External(ext_res, ext_id) == [local |-> FALSE, ext_res |-> ext_res, ext_id |-> ext_id]
Local == [local |-> TRUE, ext_res |-> <<>>, ext_id |-> NoIdent]

\* (Not the code: a table looked up by the name of the identifier instead
\* of by its cell.)
ExternalOfByName(module, ty) ==
    IF ty.path # NoPath
    THEN {External(res, ty.ident) :
             res \in resolve_inline_resource(ty.path, module.resource, module.imports)}
    ELSE IF \E id \in DOMAIN module.imports : Name(id) = Name(ty.ident)
    THEN {External(module.imports[id][1], module.imports[id][2]) :
             id \in {i \in DOMAIN module.imports : Name(i) = Name(ty.ident)}}
    ELSE {Local}

ExternalOf(module, ty) ==
    IF ty.path # NoPath
    THEN {External(res, ty.ident) :
             res \in resolve_inline_resource(ty.path, module.resource, module.imports)}
    ELSE IF ty.ident \in DOMAIN module.imports
    THEN {External(module.imports[ty.ident][1], module.imports[ty.ident][2])}
    ELSE {Local}

\* (Not the code: a module that is never found to declare the identifier.)
declares_nothing(module, ident) == FALSE

\* `module.idents.contains_key(&ty.ident)` / `mod_idents.get(&ty.ident)` of
\* a type expression whose target is the module itself: by cell.
declares(module, ident) == ident \in DOMAIN module.idents

\* The identifiers of ext_mod.idents that find(|(id, _)| *id.name() == *ext_id.name())
\* may return.
FindByName(ext_mod, ext_id) == {id \in DOMAIN ext_mod.idents : Name(id) = Name(ext_id)}

\* Rewrite without `ty.path = None`.
RewriteKeepsPath(ty, ext_id) == [ty EXCEPT !.ident = ext_id]

\* ty.path = None; ty.ident = ext_id;
Rewrite(ty, ext_id) == [ty EXCEPT !.path = NoPath, !.ident = ext_id]

\* The positions <<declaration, type expression>> of a unit in the order of
\* Visit::<TypeExpression>::visit_mut(&mut module.source).
RECURSIVE TysFrom(_, _)
TysFrom(decls, d) ==
    IF d > Len(decls) THEN <<>>
    ELSE [t \in 1..Len(decls[d].tys) |-> <<d, t>>] \o TysFrom(decls, d + 1)

AllTys(source) == TysFrom(source.global_declarations, 1)

-----------------------------------------------------------------------------
(* Leaving the call.                                                       *)

\* return Err(e), by `?`: the Resolutions of the call is dropped.
Fail(e) ==
    /\ result' = Result("err", e)
    /\ modules' = EmptyMap
    /\ order' = <<>>

\* A panic unwinds the call: the Resolutions is dropped as well.
Panic ==
    /\ result' = Result("panic", NoError)
    /\ modules' = EmptyMap
    /\ order' = <<>>

-----------------------------------------------------------------------------
(* resolve_eager.                                                          *)

\* resolve_module without its first loop.
EagerImportsNone(module) == {}

\* The entries of module.imports that the first loop of resolve_module visits.
EagerImports(module) == DOMAIN module.imports

\* One call of the inner fn resolve_module on the module at res: the
\* imports its first loop has not reached yet (todo), the position of its
\* second loop in AllTys (n), and the (ext_res, ext_id) whose module the
\* second loop is loading (pend; Local when it is loading none).  The call
\* holds the borrow_mut() of its module from its start to its return.
Frame(module) ==
    [res |-> module.resource, todo |-> EagerImports(module), n |-> 1, pend |-> Local]

Top == stack[Len(stack)]

\* The modules a RefMut is held on: those of the active calls.
BorrowedMut == {stack[i].res : i \in 1..Len(stack)}

\* resolver.resolve_module(resource)?, Module::new, push_module and the
\* recursive call resolve_module(module.borrow_mut().deref_mut(), ..);
\* callers is the stack as the calling frame leaves it.
EagerLoad(resource, callers) ==
    LET got == resolve_module(input.resolver, resource)
    IN /\ requests' = Append(requests, resource)
       /\ IF ~got.ok
          THEN Fail(got.error) /\ UNCHANGED stack
          ELSE LET module == ModuleNew(got.source, resource)
                   r == push_module(Resolutions(modules, order), resource, module)
               IN /\ modules' = r.modules
                  /\ order' = r.order
                  /\ stack' = Append(callers, Frame(module))
                  /\ UNCHANGED result

\* resolve_eager up to its call of resolve_module on the root.
ResolveEagerBegin ==
    /\ result.kind = "init"
    /\ input.mode = "eager"
    /\ LET module == ModuleNew(input.root, input.resource)
           r == push_module(ResolutionsNew, input.resource, module)
       IN /\ modules' = r.modules
          /\ order' = r.order
          /\ stack' = <<Frame(module)>>
    /\ result' = Result("running", NoError)
    /\ UNCHANGED <<input, requests, lz, assembled, renamed, mangler, calls, cr, fcall, walks, run1>>

\* One iteration of `for (_, (resource, _)) in &module.imports`, in the
\* order of the hash map: any import not visited yet.
EagerImportStep ==
    /\ result.kind = "running"
    /\ input.mode = "eager"
    /\ stack # <<>>
    /\ Top.todo # {}
    /\ \E ident \in Top.todo :
        LET resource == modules[Top.res].imports[ident][1]
            callers == [stack EXCEPT ![Len(stack)].todo = @ \ {ident}]
        IN IF resource \in DOMAIN modules
           THEN /\ stack' = callers
                /\ UNCHANGED <<modules, order, requests, result>>
           ELSE EagerLoad(resource, callers)
    /\ UNCHANGED <<input, lz, assembled, renamed, mangler, calls, cr, fcall, walks, run1>>

\* The end of an iteration of the second loop, from "get the ident of the
\* external declaration": ext_mod.borrow() panics when a RefMut is held on
\* ext_mod; find takes any identifier of that name; the type is rewritten.
EagerLookup(ext_res, ext_id) ==
    LET pos == AllTys(modules[Top.res].source)[Top.n]
        found == FindByName(modules[ext_res], ext_id)
    IN IF ext_res \in BorrowedMut
       THEN Panic /\ UNCHANGED stack
       ELSE IF found = {}
       THEN Fail(MissingDecl(ext_res, Name(ext_id))) /\ UNCHANGED stack
       ELSE \E id \in found :
               /\ modules' = [modules EXCEPT
                     ![Top.res].source.global_declarations[pos[1]].tys[pos[2]] =
                         Rewrite(@, id)]
               /\ stack' = [stack EXCEPT ![Len(stack)].n = @ + 1,
                                         ![Len(stack)].pend = Local]
               /\ UNCHANGED <<order, result>>

\* One iteration of `for ty in visit_mut(&mut module.source)`, up to the
\* recursive call when the external module has to be loaded.
EagerTyStep ==
    /\ result.kind = "running"
    /\ input.mode = "eager"
    /\ stack # <<>>
    /\ Top.todo = {}
    /\ Top.pend.local
    /\ Top.n <= Len(AllTys(modules[Top.res].source))
    /\ LET module == modules[Top.res]
           pos == AllTys(module.source)[Top.n]
           ty == module.source.global_declarations[pos[1]].tys[pos[2]]
           continue == /\ stack' = [stack EXCEPT ![Len(stack)].n = @ + 1]
                       /\ UNCHANGED <<modules, order, requests, result>>
       IN \E ext \in ExternalOf(module, ty) :
            IF ext.local THEN continue
            ELSE IF ext.ext_res = module.resource
            THEN IF declares(module, ty.ident)
                 THEN continue
                 ELSE /\ Fail(MissingDecl(ext.ext_res, Name(ty.ident)))
                      /\ UNCHANGED <<stack, requests>>
            ELSE IF ext.ext_res \in DOMAIN modules
            THEN EagerLookup(ext.ext_res, ext.ext_id) /\ UNCHANGED requests
            ELSE EagerLoad(ext.ext_res, [stack EXCEPT ![Len(stack)].pend = ext])
    /\ UNCHANGED <<input, lz, assembled, renamed, mangler, calls, cr, fcall, walks, run1>>

\* The iteration goes on after the recursive call has returned Ok.
EagerTyResume ==
    /\ result.kind = "running"
    /\ input.mode = "eager"
    /\ stack # <<>>
    /\ Top.todo = {}
    /\ ~Top.pend.local
    /\ EagerLookup(Top.pend.ext_res, Top.pend.ext_id)
    /\ UNCHANGED <<input, requests, lz, assembled, renamed, mangler, calls, cr, fcall, walks, run1>>

\* Ok(()) of resolve_module; that of the root call is followed by the
\* Ok(resolutions) of resolve_eager.
EagerReturn ==
    /\ result.kind = "running"
    /\ input.mode = "eager"
    /\ stack # <<>>
    /\ Top.todo = {}
    /\ Top.pend.local
    /\ Top.n > Len(AllTys(modules[Top.res].source))
    /\ stack' = Pop(stack)
    /\ result' = IF Len(stack) = 1 THEN Result("ok", NoError) ELSE result
    /\ UNCHANGED <<input, modules, order, requests, lz, assembled, renamed, mangler, calls, cr, fcall, walks, run1>>

\* The cell of a declaration of a module loaded by an earlier call.  Every
\* call of resolve_module parses anew, so the cells of the modules a later
\* call loads are other cells than these.
Earlier(id) == IF id.k = "decl" THEN [id EXCEPT !.k = "earlier"] ELSE id

\* The root as a successful call has left it, as the next call receives it:
\* the same unit, the type expressions rewritten by the first call holding
\* cells of the modules that call loaded.
ResolvedRoot(module) ==
    [module.source EXCEPT !.global_declarations =
        [d \in DOMAIN module.source.global_declarations |->
            LET decl == module.source.global_declarations[d]
            IN [decl EXCEPT !.tys =
                   [t \in DOMAIN decl.tys |->
                       IF decl.tys[t].ident \in DOMAIN module.idents
                       THEN decl.tys[t]
                       ELSE [decl.tys[t] EXCEPT !.ident = Earlier(@)]]]]]

\* resolve_eager called once more, with the same resource and resolver, on
\* the root that the call before it resolved: resolve_eager up to its call
\* of resolve_module, as in ResolveEagerBegin.
ResolveEagerAgain ==
    /\ result.kind = "ok"
    /\ input.mode = "eager"
    /\ calls < MaxCalls
    /\ mangler.runs = 0
    /\ ~assembled.called
    /\ LET root == ResolvedRoot(modules[input.resource])
           module == ModuleNew(root, input.resource)
           r == push_module(ResolutionsNew, input.resource, module)
       IN /\ input' = [input EXCEPT !.root = root]
          /\ modules' = r.modules
          /\ order' = r.order
          /\ stack' = <<Frame(module)>>
    /\ requests' = <<>>
    /\ result' = Result("running", NoError)
    /\ calls' = calls + 1
    /\ UNCHANGED <<lz, assembled, renamed, mangler, cr, fcall, walks, run1>>

-----------------------------------------------------------------------------
(* resolve_lazy.                                                           *)

\* The locals of resolve_lazy and of the resolve_decls call it is in:
\*   decls, next_decls  the two Decls maps of the outer loop;
\*   keys               the entries of decls its `for` has not reached yet;
\*   res                the module resolve_decls walks (and holds borrowed);
\*   local_decls, local_next   the two sets of the loop of resolve_decls
\*                      (there called local_decls and next_decls);
\*   iter               the elements of local_decls its `for` has not reached;
\*   decl, ty           the declaration resolve_decl walks, and the position
\*                      of its walk;
\*   phase              "outer": between two calls of resolve_decls,
\*                      "decls": between two calls of resolve_decl,
\*                      "tys": inside resolve_decl, "idle": not in resolve_lazy.
Lazy(phase, decls, next_decls, keys, res, local_decls, iter, local_next, decl, ty) ==
    [phase |-> phase, decls |-> decls, next_decls |-> next_decls, keys |-> keys,
     res |-> res, local_decls |-> local_decls, iter |-> iter,
     local_next |-> local_next, decl |-> decl, ty |-> ty]

LazyIdle == Lazy("idle", EmptyMap, EmptyMap, {}, <<>>, {}, {}, {}, 0, 0)

\* (Not the code: a load that asks the resolver without looking into the
\* modules table first.)
load_module_unchecked(resource, local_decls, resolutions, resolver) ==
    LET got == resolve_module(resolver, resource)
        module == ModuleNew(got.source, resource)
    IN IF ~got.ok
       THEN [ok |-> FALSE, error |-> got.error, local_decls |-> local_decls,
             resolutions |-> resolutions, asked |-> <<resource>>]
       ELSE [ok |-> TRUE, error |-> NoError,
             local_decls |-> local_decls \cup const_asserts(module.source),
             resolutions |-> push_module(resolutions, resource, module),
             asked |-> <<resource>>]

\* The inner fn load_module: the module, loaded if absent.  The const_asserts
\* of a module it loads go into the local_decls it was given.
load_module(resource, local_decls, resolutions, resolver) ==
    IF resource \in DOMAIN resolutions.modules
    THEN [ok |-> TRUE, error |-> NoError, local_decls |-> local_decls,
          resolutions |-> resolutions, asked |-> <<>>]
    ELSE LET got == resolve_module(resolver, resource)
             module == ModuleNew(got.source, resource)
         IN IF ~got.ok
            THEN [ok |-> FALSE, error |-> got.error, local_decls |-> local_decls,
                  resolutions |-> resolutions, asked |-> <<resource>>]
            ELSE [ok |-> TRUE, error |-> NoError,
                  local_decls |-> local_decls \cup const_asserts(module.source),
                  resolutions |-> push_module(resolutions, resource, module),
                  asked |-> <<resource>>]

\* (Not the code: a collect that leaves out the identifiers it does not find.)
keep_missing_none(module, keep) == {}

\* The identifiers of keep for which `module.idents.get(id)` is None.
keep_missing(module, keep) == {id \in keep : id \notin DOMAIN module.idents}

\* resolve_lazy up to its loop: the indexes of keep and of the const_asserts
\* of the root.  try_collect stops at the first identifier of keep, in the
\* order of the hash set, that the root does not declare.
ResolveLazyBegin ==
    /\ result.kind = "init"
    /\ input.mode = "lazy"
    /\ LET module == ModuleNew(input.root, input.resource)
           missing == keep_missing(module, input.keep)
           keep_decls == {module.idents[id] : id \in input.keep \cap DOMAIN module.idents}
                             \cup const_asserts(module.source)
           r == push_module(ResolutionsNew, input.resource, module)
       IN IF missing # {}
          THEN /\ \E id \in missing : Fail(MissingDecl(input.resource, Name(id)))
               /\ UNCHANGED lz
          ELSE /\ modules' = r.modules
               /\ order' = r.order
               /\ result' = Result("running", NoError)
               /\ lz' = Lazy("outer", input.resource :> keep_decls, EmptyMap,
                             {input.resource}, <<>>, {}, {}, {}, 0, 0)
    /\ UNCHANGED <<input, requests, stack, assembled, renamed, mangler, calls, cr, fcall, walks, run1>>

\* `for (resource, decls) in &mut decls`, in the order of the hash map: the
\* start of resolve_decls, up to its loop.  No RefMut is held between two
\* calls of resolve_decls, so try_borrow_mut succeeds.
LazyResolveDecls ==
    /\ result.kind = "running"
    /\ lz.phase = "outer"
    /\ lz.keys # {}
    /\ \E resource \in lz.keys :
        LET got == load_module(resource, {}, Resolutions(modules, order), input.resolver)
        IN /\ requests' = requests \o got.asked
           /\ IF ~got.ok
              THEN Fail(got.error) /\ UNCHANGED lz
              ELSE /\ modules' = got.resolutions.modules
                   /\ order' = got.resolutions.order
                   /\ lz' = [lz EXCEPT !.phase = "decls",
                                       !.keys = @ \ {resource},
                                       !.res = resource,
                                       !.local_decls = lz.decls[resource],
                                       !.iter = lz.decls[resource],
                                       !.local_next = {}]
                   /\ UNCHANGED result
    /\ UNCHANGED <<input, stack, assembled, renamed, mangler, calls, cr, fcall, walks, run1>>

\* The end of a pass of `while !decls.is_empty()`: swap, clear, and
\* Ok(resolutions) when decls is then empty.
LazySwap ==
    /\ result.kind = "running"
    /\ lz.phase = "outer"
    /\ lz.keys = {}
    /\ IF DOMAIN lz.next_decls = {}
       THEN /\ lz' = LazyIdle
            /\ result' = Result("ok", NoError)
       ELSE /\ lz' = [lz EXCEPT !.decls = lz.next_decls,
                                !.next_decls = EmptyMap,
                                !.keys = DOMAIN lz.next_decls]
            /\ UNCHANGED result
    /\ UNCHANGED <<input, modules, order, requests, stack, assembled, renamed, mangler, calls, cr, fcall, walks, run1>>

\* (Not the code: a walk that does not record the declaration it walks.)
treated_insert_none(module, decl) == module

\* (Not the code: a walk that records its declaration in place of those
\* recorded before.)
treated_insert_alone(module, decl) ==
    IF HasIdent(decl)
    THEN [module EXCEPT !.treated_idents = {decl.ident}]
    ELSE module

\* `module.treated_idents.insert(id.clone())` of resolve_decl, for a
\* declaration that has an identifier.
treated_insert(module, decl) ==
    IF HasIdent(decl)
    THEN [module EXCEPT !.treated_idents = @ \cup {decl.ident}]
    ELSE module

\* (Not the code: a resolve_decl that never returns at its test.)
already_treated_never(module, decl) == FALSE

\* `!module.treated_idents.insert(id.clone())`, under `if let Some(id) =
\* decl.ident()`: the identifier was in the set already.
already_treated(module, decl) == HasIdent(decl) /\ decl.ident \in module.treated_idents

\* walks after one more walk of the declaration at.
Walked1(w, at) == (at :> (IF at \in DOMAIN w THEN w[at] ELSE 0) + 1) @@ w

\* `for decl in local_decls.iter()`, in the order of the hash set: the start
\* of resolve_decl.  A declaration whose identifier is treated is left; any
\* other has its identifier, if it has one, inserted and is walked.
LazyResolveDecl ==
    /\ result.kind = "running"
    /\ lz.phase = "decls"
    /\ lz.iter # {}
    /\ \E d \in lz.iter :
        LET module == modules[lz.res]
            decl == module.source.global_declarations[d]
        IN IF already_treated(module, decl)
           THEN /\ lz' = [lz EXCEPT !.iter = @ \ {d}]
                /\ UNCHANGED <<modules, walks, run1>>
           ELSE /\ modules' = [modules EXCEPT ![lz.res] = treated_insert(module, decl)]
                /\ walks' = Walked1(walks, <<lz.res, d>>)
                /\ lz' = IF decl.tys = <<>>
                         THEN [lz EXCEPT !.iter = @ \ {d}]
                         ELSE [lz EXCEPT !.iter = @ \ {d}, !.phase = "tys",
                                         !.decl = d, !.ty = 1]
    /\ UNCHANGED <<input, order, requests, stack, result, assembled, renamed, mangler, calls, cr, fcall, run1>>

\* The end of a pass of `while !local_decls.is_empty()`: swap, clear, and
\* Ok(()) of resolve_decls when local_decls is then empty.
LazyLocalSwap ==
    /\ result.kind = "running"
    /\ lz.phase = "decls"
    /\ lz.iter = {}
    /\ lz' = IF lz.local_next = {}
             THEN [lz EXCEPT !.phase = "outer", !.res = <<>>,
                             !.local_decls = {}, !.local_next = {}]
             ELSE [lz EXCEPT !.local_decls = lz.local_next,
                             !.iter = lz.local_next,
                             !.local_next = {}]
    /\ UNCHANGED <<input, modules, order, requests, stack, result, assembled, renamed, mangler, calls, cr, fcall, walks, run1>>

\* (Not the code: a walk that stays at the type expression it is at.)
LazyStay(local_next, next_decls) ==
    [lz EXCEPT !.local_next = local_next, !.next_decls = next_decls]

\* lz after the type expression at lz.ty, with local_next and next_decls as given.
LazyAdvance(local_next, next_decls) ==
    LET tys == modules[lz.res].source.global_declarations[lz.decl].tys
    IN IF lz.ty < Len(tys)
       THEN [lz EXCEPT !.ty = @ + 1, !.local_next = local_next,
                       !.next_decls = next_decls]
       ELSE [lz EXCEPT !.phase = "decls", !.decl = 0, !.ty = 0,
                       !.local_next = local_next, !.next_decls = next_decls]

\* extern_decls.entry(ext_res).or_insert(Default::default()).insert(ext_decl)
DeclsInsert(decls, resource, decl) ==
    (resource :> ((IF resource \in DOMAIN decls THEN decls[resource] ELSE {}) \cup {decl}))
        @@ decls

\* One call of the inner fn resolve_ty from resolve_decl.
LazyResolveTy ==
    /\ result.kind = "running"
    /\ lz.phase = "tys"
    /\ LET module == modules[lz.res]
           ty == module.source.global_declarations[lz.decl].tys[lz.ty]
           local == IF ty.ident \in DOMAIN module.idents
                    THEN lz.local_next \cup {module.idents[ty.ident]}
                    ELSE lz.local_next
           stop(local_next) == /\ lz' = LazyAdvance(local_next, lz.next_decls)
                               /\ UNCHANGED <<modules, order, requests, result>>
       IN IF ty.ident \in module.treated_idents
          THEN stop(lz.local_next)
          ELSE \E ext \in ExternalOf(module, ty) :
            IF ext.local THEN stop(local)
            ELSE IF ext.ext_res = module.resource
            THEN IF declares(module, ty.ident)
                 THEN stop(local)
                 ELSE /\ Fail(MissingDecl(ext.ext_res, Name(ty.ident)))
                      /\ UNCHANGED <<lz, requests>>
            ELSE
              LET got == load_module(ext.ext_res, {}, Resolutions(modules, order),
                                     input.resolver)
                  ext_mod == got.resolutions.modules[ext.ext_res]
                  found == FindByName(ext_mod, ext.ext_id)
              IN /\ requests' = requests \o got.asked
                 /\ IF ~got.ok
                    THEN Fail(got.error) /\ UNCHANGED lz
                    \* try_borrow_mut fails when a RefMut is held on ext_mod:
                    \* the only one held is that of resolve_decls, on lz.res.
                    ELSE IF ext.ext_res = lz.res
                    THEN Fail(CircularDependency(module.resource)) /\ UNCHANGED lz
                    ELSE IF found = {}
                    THEN Fail(MissingDecl(ext.ext_res, Name(ext.ext_id))) /\ UNCHANGED lz
                    ELSE \E ext_id \in found :
                        /\ modules' = [got.resolutions.modules EXCEPT
                              ![lz.res].source.global_declarations[lz.decl].tys[lz.ty] =
                                  Rewrite(@, ext_id)]
                        /\ order' = got.resolutions.order
                        /\ lz' = LazyAdvance(lz.local_next,
                                    IF ext_id \notin ext_mod.treated_idents
                                    THEN DeclsInsert(lz.next_decls, ext.ext_res,
                                                     ext_mod.idents[ext_id])
                                    ELSE lz.next_decls)
                        /\ UNCHANGED result
    /\ UNCHANGED <<input, stack, assembled, renamed, mangler, calls, cr, fcall, walks, run1>>

-----------------------------------------------------------------------------
(* Resolutions::assemble.                                                  *)

\* The modules with the module loaded last first.
ModulesLastFirst(resolutions) ==
    [i \in 1..Len(resolutions.order) |->
        resolutions.modules[resolutions.order[Len(resolutions.order) + 1 - i]]]

\* Resolutions::modules: the modules in the order of `order`.
ModulesInOrder(resolutions) ==
    [i \in 1..Len(resolutions.order) |-> resolutions.modules[resolutions.order[i]]]

\* The filter without `decl.is_const_assert() ||`.
LiveTreatedOnly(module, decl) ==
    HasIdent(decl) /\ decl.ident \in module.treated_idents

\* The filter of assemble(strip = true).
Live(module, decl) ==
    is_const_assert(decl)
        \/ (HasIdent(decl) /\ decl.ident \in module.treated_idents)

RECURSIVE LiveDecls(_, _)
LiveDecls(module, decls) ==
    IF decls = <<>> THEN <<>>
    ELSE (IF Live(module, Head(decls)) THEN <<Head(decls)>> ELSE <<>>)
             \o LiveDecls(module, Tail(decls))

\* Vec::dedup: of consecutive equal elements the first stays.
RECURSIVE Dedup(_)
Dedup(v) ==
    IF Len(v) < 2 THEN v
    ELSE IF v[1] = v[2] THEN Dedup(Tail(v))
    ELSE <<v[1]>> \o Dedup(Tail(v))

RECURSIVE AssembleFrom(_, _)
AssembleFrom(mods, strip) ==
    IF mods = <<>> THEN TranslationUnit(<<>>, <<>>, <<>>)
    ELSE LET module == Head(mods)
             rest == AssembleFrom(Tail(mods), strip)
         IN TranslationUnit(
                <<>>,
                module.source.global_directives \o rest.global_directives,
                (IF strip
                 THEN LiveDecls(module, module.source.global_declarations)
                 ELSE module.source.global_declarations) \o rest.global_declarations)

assemble(resolutions, strip) ==
    LET wesl == AssembleFrom(ModulesInOrder(resolutions), strip)
    IN [wesl EXCEPT !.global_directives = Dedup(@)]

NotAssembled == [called |-> FALSE, strip |-> FALSE, wesl |-> TranslationUnit(<<>>, <<>>, <<>>)]

\* A call of assemble on the Resolutions the resolver returned.
Assemble ==
    /\ result.kind = "ok"
    /\ \E strip \in BOOLEAN :
        assembled' = [called |-> TRUE, strip |-> strip,
                      wesl |-> assemble(Resolutions(modules, order), strip)]
    /\ UNCHANGED <<input, modules, order, requests, stack, lz, result, renamed, mangler, calls, cr, fcall, walks, run1>>

\* No earlier run.
NoRun == [done |-> FALSE, order |-> <<>>, assembled |-> NotAssembled]

\* The same call once more: resolve_eager or resolve_lazy with the arguments
\* of the run that has returned, the resolver answering as before, after
\* that run's Resolutions has been assembled.
RunAgain ==
    /\ result.kind = "ok"
    /\ assembled.called
    /\ ~run1.done
    /\ mangler.runs = 0
    /\ run1' = [done |-> TRUE, order |-> order, assembled |-> assembled]
    /\ modules' = EmptyMap
    /\ order' = <<>>
    /\ requests' = <<>>
    /\ stack' = <<>>
    /\ lz' = LazyIdle
    /\ result' = Result("init", NoError)
    /\ assembled' = NotAssembled
    /\ walks' = EmptyMap
    /\ UNCHANGED <<input, renamed, mangler, calls, cr, fcall>>

-----------------------------------------------------------------------------
(* CacheResolver, wrapping a FileResolver.                                 *)

\* The resources asked for, and what a file can hold; NoFile: there is none.
CachePaths == {<<"a">>, <<"b">>}
Sources == {"fn x {}", "fn y {}"}
NotWesl == "fn {"
NoFile == "(no file)"
NoFiles == [p \in CachePaths |-> NoFile]

\* FileResolver::resolve_source: the file as it is now.
file_resolve_source(files, resource) ==
    IF files[resource] = NoFile
    THEN [ok |-> FALSE, source |-> "", error |-> FileNotFound(resource)]
    ELSE [ok |-> TRUE, source |-> files[resource], error |-> NoError]

\* `source.parse()`: the texts of the instances that are WESL modules.
Parses(source) == source \in Sources

\* Resolver::source_to_module: the unit parsed from the text, or the
\* diagnostic of the parser.
source_to_module(source, resource) ==
    IF Parses(source)
    THEN [ok |-> TRUE, wesl |-> [parsed |-> source, resource |-> resource], error |-> NoError]
    ELSE [ok |-> FALSE, wesl |-> [parsed |-> "", resource |-> resource],
          error |-> ParseError(resource)]

\* Resolver::resolve_module as FileResolver has it, the default of the trait:
\* resolve_source(..)?, then source_to_module(..)?.
file_resolve_module(files, resource) ==
    LET got == file_resolve_source(files, resource)
        module == source_to_module(got.source, resource)
    IN IF ~got.ok
       THEN [ok |-> FALSE, source |-> got.source, error |-> got.error, wesl |-> module.wesl]
       ELSE [ok |-> module.ok, source |-> got.source, error |-> module.error,
             wesl |-> module.wesl]

\* CacheResolver::new, with what the model records about it:
\*   files    the files the wrapped resolver reads;
\*   cache    CacheResolver.cache;
\*   fetched  per resource, the calls of the wrapped resolve_source that
\*            returned a source;
\*   served   per resource, the sources the answers of the CacheResolver
\*            were made of.
CacheResolverNew(files) ==
    [files |-> files, cache |-> EmptyMap,
     fetched |-> [p \in CachePaths |-> 0], served |-> [p \in CachePaths |-> {}]]

\* CacheResolver::resolve_source.
CacheResolveSource ==
    \E resource \in CachePaths :
        /\ IF resource \in DOMAIN cr.cache
           THEN cr' = [cr EXCEPT !.served[resource] = @ \cup {cr.cache[resource]}]
           ELSE LET got == file_resolve_source(cr.files, resource)
                IN IF ~got.ok
                   THEN cr' = cr
                   ELSE /\ cr.fetched[resource] < MaxFetch
                        /\ cr' = [cr EXCEPT !.cache = (resource :> got.source) @@ @,
                                            !.fetched[resource] = @ + 1,
                                            !.served[resource] = @ \cup {got.source}]
        /\ UNCHANGED <<input, modules, order, requests, stack, lz, result,
                       assembled, renamed, mangler, calls, fcall, walks, run1>>

\* CacheResolver::resolve_module: self.resolver.resolve_module(resource).
CacheResolveModule ==
    \E resource \in CachePaths :
        /\ LET read == file_resolve_source(cr.files, resource)
               got == file_resolve_module(cr.files, resource)
           IN IF ~read.ok
              THEN cr' = cr
              ELSE /\ cr.fetched[resource] < MaxFetch
                   /\ cr' = [cr EXCEPT !.fetched[resource] = @ + 1,
                                       !.served[resource] =
                                           IF got.ok THEN @ \cup {got.wesl.parsed} ELSE @]
        /\ UNCHANGED <<input, modules, order, requests, stack, lz, result,
                       assembled, renamed, mangler, calls, fcall, walks, run1>>

\* The file of a resource is written, created or removed between two calls.
FileWritten ==
    \E resource \in CachePaths : \E source \in Sources \cup {NotWesl, NoFile} :
        /\ source # cr.files[resource]
        /\ cr' = [cr EXCEPT !.files[resource] = source]
        /\ UNCHANGED <<input, modules, order, requests, stack, lz, result,
                       assembled, renamed, mangler, calls, fcall, walks, run1>>

-----------------------------------------------------------------------------
(* Router.                                                                 *)

\* No call made: no receiver, no function, no argument, nothing returned.
NoCall == [self |-> <<>>, fn |-> "", arg |-> <<>>, out |-> <<>>]

\* Option::None of Router.fallback.
NoMount == <<>>

\* Router::new.  mounts is not a field: it records every call of
\* mount_resolver, in order, as (path, resolver).
RouterNew == [mount_points |-> <<>>, fallback |-> NoMount, mounts |-> <<>>]

\* Router::mount_resolver.
mount_resolver(router, path, resolver) ==
    LET mounted == [router EXCEPT !.mounts = Append(@, <<path, resolver>>)]
    IN IF Len(path) = 0
       THEN [mounted EXCEPT !.fallback = <<path, resolver>>]
       ELSE [mounted EXCEPT !.mount_points = Append(@, <<path, resolver>>)]

\* Path::starts_with and Path::strip_prefix: by whole components.
StartsWith(path, base) == Len(base) <= Len(path) /\ SubSeq(path, 1, Len(base)) = base
strip_prefix(path, base) == SubSeq(path, Len(base) + 1, Len(path))

\* ResolveError::InvalidResource(Resource, String)
InvalidResource(resource, why) ==
    [tag |-> "InvalidResource", res |-> resource, name |-> why, inner |-> ""]

\* Iterator::max_by_key over the positions `among` of points, the key the
\* number of components: of several greatest elements the last is returned.
max_by_key(points, among) ==
    CHOOSE i \in among : \A j \in among :
        \/ Len(points[j][1]) < Len(points[i][1])
        \/ Len(points[j][1]) = Len(points[i][1]) /\ j <= i

\* Router::route: the resolver and the resource it is asked for.
route(router, resource) ==
    LET points == router.mount_points
        among == {i \in 1..Len(points) : StartsWith(resource, points[i][1])}
        found == IF among # {} THEN points[max_by_key(points, among)]
                 ELSE IF router.fallback # NoMount /\ StartsWith(resource, router.fallback[1])
                 THEN router.fallback
                 ELSE NoMount
    IN IF found = NoMount
       THEN [ok |-> FALSE, resolver |-> 0, resource |-> <<>>,
             error |-> InvalidResource(resource, "no mount point")]
       ELSE [ok |-> TRUE, resolver |-> found[2],
             resource |-> ResourceNew(strip_prefix(resource, found[1])),
             error |-> NoError]

\* The prefixes mounted and the resources routed in the instances.
MountPaths == {<<>>, <<"a">>, <<"a", "b">>, <<"b">>}
RoutePaths == {<<"a">>, <<"a", "b">>, <<"a", "b", "c">>, <<"b", "c">>, <<"c">>}

\* router.mount_resolver(path, resolver); the resolvers are told apart by
\* the number of the call that mounted them.
MountResolver ==
    /\ fcall.fn \in {"Router::new", "mount_resolver", "route"}
    /\ Len(fcall.self.mounts) < MaxMounts
    /\ \E path \in MountPaths :
          fcall' = [self |-> mount_resolver(fcall.self, path, Len(fcall.self.mounts) + 1),
                    fn |-> "mount_resolver", arg |-> path, out |-> <<>>]
    /\ UNCHANGED <<input, modules, order, requests, stack, lz, result,
                   assembled, renamed, mangler, calls, cr, walks, run1>>

\* router.route(resource), as resolve_source, resolve_module and the other
\* methods of the Router call it.
Route ==
    /\ fcall.fn \in {"Router::new", "mount_resolver", "route"}
    /\ \E resource \in RoutePaths :
          fcall' = [fcall EXCEPT !.fn = "route", !.arg = resource,
                                 !.out = route(fcall.self, resource)]
    /\ UNCHANGED <<input, modules, order, requests, stack, lz, result,
                   assembled, renamed, mangler, calls, cr, walks, run1>>

-----------------------------------------------------------------------------
(* Resource and NoResolver, called on their own.                           *)

\* The paths handed to Resource::new: up to MaxLen components, after a root
\* or not, and the suffixes handed to Resource::join.
Segments == {CurDir, ParentDir, "a", "b", "lib.v2.wesl"}
RelativePaths == UNION {[1..k -> Segments] : k \in 0..MaxLen}
RawPaths == RelativePaths \cup {<<RootDir>> \o path : path \in RelativePaths}
Suffixes == {<<>>, <<"a">>, <<ParentDir>>, <<ParentDir, ParentDir>>, <<CurDir, "b">>, <<RootDir, "a">>}

\* Resource::new(path).
ResourceNewCall ==
    /\ fcall.fn = "path"
    /\ fcall' = [fcall EXCEPT !.fn = "Resource::new", !.out = ResourceNew(fcall.arg)]
    /\ UNCHANGED <<input, modules, order, requests, stack, lz, result,
                   assembled, renamed, mangler, calls, cr, walks, run1>>

\* Resource::new(resource.path()), on the Resource the call before returned.
ResourceNewAgain ==
    /\ fcall.fn = "Resource::new"
    /\ fcall' = [self |-> fcall.out, fn |-> "Resource::new(path())", arg |-> fcall.out,
                 out |-> ResourceNew(fcall.out)]
    /\ UNCHANGED <<input, modules, order, requests, stack, lz, result,
                   assembled, renamed, mangler, calls, cr, walks, run1>>

\* resource.join(suffix), on the Resource the call before returned.
ResourceJoinCall ==
    /\ fcall.fn = "Resource::new"
    /\ \E suffix \in Suffixes :
          fcall' = [self |-> fcall.out, fn |-> "join", arg |-> suffix,
                    out |-> ResourceJoin(fcall.out, suffix)]
    /\ UNCHANGED <<input, modules, order, requests, stack, lz, result,
                   assembled, renamed, mangler, calls, cr, walks, run1>>

\* NoResolver::resolve_source.
no_resolver_resolve_source(resource) ==
    [ok |-> FALSE, source |-> "", error |-> InvalidResource(resource, "no resolver")]

\* NoResolver.resolve_source(&resource), on the Resource the call before
\* returned.
NoResolverResolveSource ==
    /\ fcall.fn \in {"Resource::new", "join"}
    /\ fcall' = [self |-> <<>>, fn |-> "NoResolver::resolve_source", arg |-> fcall.out,
                 out |-> no_resolver_resolve_source(fcall.out)]
    /\ UNCHANGED <<input, modules, order, requests, stack, lz, result,
                   assembled, renamed, mangler, calls, cr, walks, run1>>

-----------------------------------------------------------------------------
(* PkgResolver.                                                            *)

\* A PkgModule: its name, its source and its submodules, in the order of
\* submodules().
PkgModule(name, source, submodules) ==
    [name |-> name, source |-> source, submodules |-> submodules]

\* Option::None of PkgModule::submodule.
NoModule == PkgModule("", "", <<>>)

\* PkgModule::submodule: the first submodule of that name.
submodule(module, name) ==
    LET found == {i \in DOMAIN module.submodules : module.submodules[i].name = name}
    IN IF found = {} THEN NoModule
       ELSE module.submodules[CHOOSE i \in found : \A j \in found : i <= j]

\* `for segment in path.iter().skip(1)` of PkgResolver::resolve_source:
\* every segment is looked up in pkg.
RECURSIVE pkg_descend(_, _, _, _)
pkg_descend(pkg, cur_mod, segments, resource) ==
    IF segments = <<>>
    THEN [ok |-> TRUE, source |-> cur_mod.source, error |-> NoError]
    ELSE LET submod == submodule(pkg, Head(segments))
         IN IF submod # NoModule
            THEN pkg_descend(pkg, submod, Tail(segments), resource)
            ELSE [ok |-> FALSE, source |-> "",
                  error |-> [tag |-> "FileNotFound", res |-> resource,
                             name |-> "in package " \o pkg.name, inner |-> ""]]

\* PkgResolver::resolve_source: the first package, in the order of
\* add_package, whose name the path starts with.
RECURSIVE pkg_resolve_source(_, _)
pkg_resolve_source(packages, resource) ==
    IF packages = <<>>
    THEN [ok |-> FALSE, source |-> "",
          error |-> [tag |-> "FileNotFound", res |-> resource,
                     name |-> "no package found", inner |-> ""]]
    ELSE LET pkg == Head(packages)
         IN IF StartsWith(resource, <<pkg.name>>)
            THEN pkg_descend(pkg, pkg, Tail(resource), resource)
            ELSE pkg_resolve_source(Tail(packages), resource)

\* The packages of the instances:
\*   p { a { b }, c }      p { a { b }, b, c }      q { a }
PkgP ==
    PkgModule("p", "p", <<PkgModule("a", "p::a", <<PkgModule("b", "p::a::b", <<>>)>>),
                         PkgModule("c", "p::c", <<>>)>>)
PkgPB ==
    PkgModule("p", "p", <<PkgModule("a", "p::a", <<PkgModule("b", "p::a::b", <<>>)>>),
                         PkgModule("b", "p::b", <<>>),
                         PkgModule("c", "p::c", <<>>)>>)
PkgQ == PkgModule("q", "q", <<PkgModule("a", "q::a", <<>>)>>)

\* The registries: PkgResolver::new and the add_package calls made on it.
Registries == {<<>>, <<PkgP>>, <<PkgPB>>, <<PkgP, PkgQ>>, <<PkgQ, PkgPB>>}

\* The resources asked for: one to MaxLen segments.
PkgNames == {"p", "q", "a", "b", "c"}
PkgPaths == UNION {[1..k -> PkgNames] : k \in 1..MaxLen}

\* PkgResolver.resolve_source(&resource).
PkgResolveSource ==
    /\ fcall.fn = "PkgResolver"
    /\ fcall' = [fcall EXCEPT !.fn = "PkgResolver::resolve_source",
                              !.out = pkg_resolve_source(fcall.self, fcall.arg)]
    /\ UNCHANGED <<input, modules, order, requests, stack, lz, result,
                   assembled, renamed, mangler, calls, cr, walks, run1>>

-----------------------------------------------------------------------------
(* Resolutions::mangle.                                                    *)

\* A name read from the syntax node, blind to Ident::rename.
NameAsParsed(names, id) == Name(id)

\* Ident::name: the name the cell holds after the renames in names.
NameNow(names, id) == IF id \in DOMAIN names THEN names[id] ELSE Name(id)

\* Mangler::mangle of the mangler of the instances: the components of the
\* path and the name, joined by "_".
RECURSIVE Joined(_)
Joined(path) == IF path = <<>> THEN "" ELSE Head(path) \o "_" \o Joined(Tail(path))

mangler_mangle(resource, name) == Joined(resource) \o name

NoMangling == [asked |-> EmptyMap, runs |-> 0]

\* The mangler after one more call of mangle(resource, name).
Asked(asked, resource, name) ==
    LET call == <<resource, name>>
    IN (call :> (IF call \in DOMAIN asked THEN asked[call] ELSE 0) + 1) @@ asked

\* mangle_decls on decls, the declarations of the module at resource not
\* renamed yet: each identifier is renamed to what the mangler answers for
\* the name it holds.
RECURSIVE mangle_decls(_, _, _, _)
mangle_decls(decls, resource, names, asked) ==
    IF decls = <<>> THEN [names |-> names, asked |-> asked]
    ELSE IF ~HasIdent(Head(decls))
    THEN mangle_decls(Tail(decls), resource, names, asked)
    ELSE LET ident == Head(decls).ident
             name == NameNow(names, ident)
             new_name == mangler_mangle(resource, name)
         IN mangle_decls(Tail(decls), resource, (ident :> new_name) @@ names,
                         Asked(asked, resource, name))

\* Resolutions::root_resource
root_resource(resolutions) == resolutions.order[1]

\* The test of mangle without the comparison.
MangleAny(resource, root) == TRUE

\* `if resource != &root_resource`
MangleThis(resource, root) == resource # root

\* The loop of Resolutions::mangle over iter, the entries of modules not
\* visited yet in the order of the hash map.
RECURSIVE mangle(_, _, _, _)
mangle(resolutions, iter, names, asked) ==
    IF iter = <<>> THEN [names |-> names, asked |-> asked]
    ELSE LET resource == Head(iter)
             done == IF MangleThis(resource, root_resource(resolutions))
                     THEN mangle_decls(
                              resolutions.modules[resource].source.global_declarations,
                              resource, names, asked)
                     ELSE [names |-> names, asked |-> asked]
         IN mangle(resolutions, Tail(iter), done.names, done.asked)

\* The orders in which a hash map with the keys S can be iterated.
Orders(S) ==
    {iter \in [1..Cardinality(S) -> S] :
        \A i, j \in 1..Cardinality(S) : iter[i] = iter[j] => i = j}

\* A call of mangle on the Resolutions the resolver returned.
Mangle ==
    /\ result.kind = "ok"
    /\ mangler.runs < MaxMangle
    /\ \E iter \in Orders(DOMAIN modules) :
          LET done == mangle(Resolutions(modules, order), iter, renamed, mangler.asked)
          IN /\ renamed' = done.names
             /\ mangler' = [asked |-> done.asked, runs |-> mangler.runs + 1]
    /\ UNCHANGED <<input, modules, order, requests, stack, lz, result, assembled, calls, cr, fcall, walks, run1>>

-----------------------------------------------------------------------------
(* The units of the instances.  A unit is written as its text spells it,   *)
(* and Unit gives every identifier its cell.                               *)

\* A type expression as spelled: path::name.  shared says that its
\* identifier is the cell retargeting gives it (FALSE: a cell of its own).
Spelled(path, name) == [path |-> path, name |-> name, shared |-> TRUE]

\* A type expression whose identifier is a cell of its own, made by
\* Ident::new, whatever the unit declares or imports.
Own(path, name) == [path |-> path, name |-> name, shared |-> FALSE]

\* A declaration as spelled; a const_assert has the name "".
Fn(name, tys) == [name |-> name, tys |-> tys]
ConstAssert(tys) == [name |-> "", tys |-> tys]

\* import path::name;  and  import path::name as alias;  as the i-th leaf of m
Item(m, i, path, name) == ImportItem(path, Cell("item", m, i, 0, name), NoIdent)
ItemAs(m, i, path, name, alias) ==
    ImportItem(path, Cell("item", m, i, 0, name), Cell("rename", m, i, 0, alias))

\* The alias cells of the leaves of imports, in the order of the text.
RECURSIVE ImportLeaves(_)
ImportLeaves(imports) ==
    IF imports = <<>> THEN <<>>
    ELSE LET import == Head(imports)
         IN (IF import.kind = "Item"
             THEN <<IF import.rename # NoIdent THEN import.rename ELSE import.ident>>
             ELSE ImportLeaves(import.imports)) \o ImportLeaves(Tail(imports))

\* The cell retarget_idents leaves in the j-th type expression of the i-th
\* declaration of module m: with a path or without, the cell of the local
\* declaration of its name if there is one (module.idents is looked up by
\* cell), else without a path the cell of the first import of that name
\* (the cell mod_imports.get(&ty.ident) looks up); any other keeps a cell of
\* its own.
retarget_idents(m, leaves, spelled, i, j) ==
    LET sp == spelled[i].tys[j]
        declared == {k \in 1..Len(spelled) : spelled[k].name = sp.name /\ sp.name # ""}
        imported == {l \in 1..Len(leaves) : Name(leaves[l]) = sp.name}
        Min(S) == CHOOSE x \in S : \A y \in S : x <= y
    IN IF sp.shared /\ declared # {}
       THEN Cell("decl", m, Min(declared), 0, sp.name)
       ELSE IF sp.path = NoPath /\ sp.shared /\ imported # {}
       THEN leaves[Min(imported)]
       ELSE Cell("use", m, i, j, sp.name)

\* The unit of module m as the kernel reads it: the declarations as
\* spelled, every identifier with its cell.
Unit(m, imports, directives, spelled) ==
    LET leaves == ImportLeaves(imports)
        decl(i) ==
            GlobalDeclaration(
                IF spelled[i].name = "" THEN "ConstAssert" ELSE "Named",
                IF spelled[i].name = "" THEN NoIdent
                ELSE Cell("decl", m, i, 0, spelled[i].name),
                <<m, i>>,
                [j \in 1..Len(spelled[i].tys) |->
                    TypeExpression(spelled[i].tys[j].path,
                                   retarget_idents(m, leaves, spelled, i, j))])
    IN TranslationUnit(imports, directives, [i \in 1..Len(spelled) |-> decl(i)])

\* The resources of the instances: the root r, the modules a and b the
\* resolver has, n, which it has not, broken, whose source does not parse,
\* and denied, for which it answers InvalidResource.
R == <<"r">>
A == <<"a">>
B == <<"b">>
N == <<"n">>
Broken == <<"broken">>
Denied == <<"denied">>

\* pkg and pkg::lib::math: the resolver has the second and not the run1.
Pkg == <<RootDir, "pkg">>
PkgLibMath == <<RootDir, "pkg", "lib", "math">>

\* a::lib::math and b::lib::math: what L::math means under `import a::lib as L`
\* and under `import b::lib as L`.
ALibMath == <<"a", "lib", "math">>
BLibMath == <<"b", "lib", "math">>

\* import a::{x, y as p};  inside depth - 1 further collections
RECURSIVE Nested(_, _)
Nested(m, depth) ==
    IF depth <= 1
    THEN ImportCollection(A, <<Item(m, 1, <<>>, "x"), ItemAs(m, 2, <<>>, "y", "p")>>)
    ELSE ImportCollection(<<>>, <<Nested(m, depth - 1)>>)

RootImports ==
    {<<>>,
     <<Item(R, 1, A, "x")>>,
     <<Item(R, 1, A, "x"), Item(R, 2, B, "x")>>,
     <<Item(R, 1, B, "u")>>,
     <<ItemAs(R, 1, Pkg, "lib", "L")>>,
     <<ItemAs(R, 1, A, "lib", "L"), ItemAs(R, 2, B, "lib", "L")>>,
     <<ItemAs(R, 1, R, "g", "h")>>}
        \cup {<<Nested(R, depth)>> : depth \in 1..MaxNest}

\* fn f { .. }  fn g { .. }  const_assert ..;
RootUnits ==
    {Unit(R, imports, <<"enable f16;">>, <<Fn("f", ftys), Fn("g", gtys)>> \o ca) :
        imports \in RootImports,
        ftys \in {<<>>, <<Spelled(NoPath, "g")>>, <<Spelled(NoPath, "x")>>,
                  <<Spelled(A, "x")>>, <<Spelled(A, "zz")>>, <<Spelled(N, "q")>>,
                  <<Spelled(R, "g")>>, <<Spelled(<<RootDir, "L", "math">>, "pi")>>,
                  <<Own(NoPath, "x")>>, <<Spelled(R, "zz")>>,
                  <<Spelled(NoPath, "h")>>},
        gtys \in {<<>>, <<Spelled(B, "u")>>},
        ca \in {<<>>, <<ConstAssert(<<Spelled(NoPath, "g")>>)>>}}

\* import r::f;  fn x { .. }  fn y {}  const_assert ..;
AUnits ==
    {Unit(A, imports, <<"enable f16;">>, <<Fn("x", xtys), Fn("y", <<>>)>> \o ca) :
        imports \in {<<>>, <<Item(A, 1, R, "f")>>},
        xtys \in {<<>>, <<Spelled(NoPath, "y")>>, <<Spelled(B, "u")>>,
                  <<Spelled(NoPath, "f")>>, <<Spelled(N, "q")>>,
                  <<Spelled(Broken, "q")>>, <<Spelled(Denied, "q")>>},
        ca \in {<<>>, <<ConstAssert(<<Spelled(NoPath, "y")>>)>>}}

\* fn u {}
BUnits ==
    {Unit(B, imports, <<"requires packed_4x8_integer_dot_product;">>, <<Fn("u", <<>>)>>) :
        imports \in {<<>>, <<Item(B, 1, A, "y")>>}}

\* const pi = ..;
MathUnit == Unit(PkgLibMath, <<>>, <<>>, <<Fn("pi", <<>>)>>)
ALibMathUnit == Unit(ALibMath, <<>>, <<>>, <<Fn("pi", <<>>)>>)
BLibMathUnit == Unit(BLibMath, <<>>, <<>>, <<Fn("e", <<>>), Fn("pi", <<>>)>>)

\* The keep sets of the lazy instances: f, f and g, a cell named f that
\* is not the cell of the declaration, and that cell with g.
KeepSets(root) ==
    LET decls == root.global_declarations
    IN {{decls[1].ident}, {decls[1].ident, decls[2].ident}, {Cell("keep", <<>>, 0, 0, "f")},
        {decls[2].ident, Cell("keep", <<>>, 0, 0, "f")}}

\* The arguments of a call: resolve_eager(root, resource, resolver) or
\* resolve_lazy(root, resource, keep, resolver).
Input(mode, root, keep, a, b) ==
    [mode |-> mode, resource |-> R, root |-> root, keep |-> keep,
     resolver |-> (A :> a) @@ (B :> b) @@ (PkgLibMath :> MathUnit)
                     @@ (ALibMath :> ALibMathUnit) @@ (BLibMath :> BLibMathUnit)
                     @@ (Broken :> ParseError(Broken))
                     @@ (Denied :> InvalidResource(Denied, "no resolver"))]

-----------------------------------------------------------------------------
(* The specification.                                                      *)

Init ==
    /\ \E root \in RootUnits, a \in AUnits, b \in BUnits :
          \/ input = Input("eager", root, {}, a, b)
          \/ \E keep \in KeepSets(root) : input = Input("lazy", root, keep, a, b)
    /\ modules = EmptyMap
    /\ order = <<>>
    /\ requests = <<>>
    /\ stack = <<>>
    /\ lz = LazyIdle
    /\ result = Result("init", NoError)
    /\ assembled = NotAssembled
    /\ renamed = EmptyMap
    /\ mangler = NoMangling
    /\ calls = 1
    /\ cr = CacheResolverNew(NoFiles)
    /\ fcall = NoCall
    /\ walks = EmptyMap
    /\ run1 = NoRun

Next ==
    \/ ResolveEagerBegin
    \/ EagerImportStep
    \/ EagerTyStep
    \/ EagerTyResume
    \/ EagerReturn
    \/ ResolveEagerAgain
    \/ ResolveLazyBegin
    \/ LazyResolveDecls
    \/ LazySwap
    \/ LazyResolveDecl
    \/ LazyLocalSwap
    \/ LazyResolveTy
    \/ Assemble
    \/ Mangle

Spec == Init /\ [][Next]_vars

\* A call of resolve_lazy from its start to its return, each step of the
\* call taken in turn: the code runs on one thread and every provider call
\* returns, so a step that can be taken is taken.  The instances are those
\* of Init that differ in what resolve_lazy reads: it never walks a
\* const_assert of a, and never looks at the imports of b, whose
\* declaration has no type expression.
LazyInit ==
    /\ Init
    /\ input.mode = "lazy"
    /\ const_asserts(input.resolver[A]) = {}
    /\ input.resolver[B].imports = <<>>

LazyNext ==
    \/ ResolveLazyBegin
    \/ LazyResolveDecls
    \/ LazySwap
    \/ LazyResolveDecl
    \/ LazyLocalSwap
    \/ LazyResolveTy

LazyLive == LazyInit /\ [][LazyNext]_vars /\ WF_vars(LazyNext)

\* Two runs of the same call, each assembled: the instances of Init with a
\* of `fn x {}  fn y {}` and b of `fn u {}`, without imports.
TwiceInit ==
    /\ Init
    /\ input.resolver[A] = Unit(A, <<>>, <<"enable f16;">>, <<Fn("x", <<>>), Fn("y", <<>>)>>)
    /\ input.resolver[B].imports = <<>>

TwiceNext ==
    \/ ResolveEagerBegin
    \/ EagerImportStep
    \/ EagerTyStep
    \/ EagerTyResume
    \/ EagerReturn
    \/ ResolveLazyBegin
    \/ LazyResolveDecls
    \/ LazySwap
    \/ LazyResolveDecl
    \/ LazyLocalSwap
    \/ LazyResolveTy
    \/ Assemble
    \/ RunAgain

TwiceSpec == TwiceInit /\ [][TwiceNext]_vars

\* A CacheResolver on its own: any sequence of calls of its resolve_source
\* and resolve_module, on any files, with no resolve call under way.
CacheInit ==
    /\ input = Input("eager", TranslationUnit(<<>>, <<>>, <<>>), {},
                     TranslationUnit(<<>>, <<>>, <<>>), TranslationUnit(<<>>, <<>>, <<>>))
    /\ modules = EmptyMap
    /\ order = <<>>
    /\ requests = <<>>
    /\ stack = <<>>
    /\ lz = LazyIdle
    /\ result = Result("init", NoError)
    /\ assembled = NotAssembled
    /\ renamed = EmptyMap
    /\ mangler = NoMangling
    /\ calls = 1
    /\ \E files \in [CachePaths -> Sources \cup {NoFile}] : cr = CacheResolverNew(files)
    /\ fcall = NoCall
    /\ walks = EmptyMap
    /\ run1 = NoRun

CacheNext ==
    \/ CacheResolveSource
    \/ CacheResolveModule
    \/ FileWritten

CacheSpec == CacheInit /\ [][CacheNext]_vars

\* No call of resolve_eager or resolve_lazy under way or made, no
\* CacheResolver at work.
NoResolveCall ==
    /\ input = Input("eager", TranslationUnit(<<>>, <<>>, <<>>), {},
                     TranslationUnit(<<>>, <<>>, <<>>), TranslationUnit(<<>>, <<>>, <<>>))
    /\ modules = EmptyMap
    /\ order = <<>>
    /\ requests = <<>>
    /\ stack = <<>>
    /\ lz = LazyIdle
    /\ result = Result("init", NoError)
    /\ assembled = NotAssembled
    /\ renamed = EmptyMap
    /\ mangler = NoMangling
    /\ calls = 1
    /\ cr = CacheResolverNew(NoFiles)
    /\ walks = EmptyMap
    /\ run1 = NoRun

\* The import statements handed to imported_resources, the i-th of a unit
\* of module m:
\*   import a::x;   import pkg::lib as L;   import self::c::x;
\*   import super::c::x as p;   import a::{x, sub::y as p};
\*   import super::{c::{d::x}, y};   import a::{};   import self::{{}};
ImportShapes(m, i) ==
    {Item(m, 10 * i, <<"a">>, "x"),
     ItemAs(m, 10 * i, <<RootDir, "pkg">>, "lib", "L"),
     Item(m, 10 * i, <<CurDir, "c">>, "x"),
     ItemAs(m, 10 * i, <<ParentDir, "c">>, "x", "p"),
     ImportCollection(<<"a">>, <<Item(m, 10 * i + 1, <<>>, "x"),
                                 ItemAs(m, 10 * i + 2, <<"sub">>, "y", "p")>>),
     ImportCollection(<<ParentDir>>,
         <<ImportCollection(<<"c">>, <<Item(m, 10 * i + 1, <<"d">>, "x")>>),
           Item(m, 10 * i + 2, <<>>, "y")>>),
     ImportCollection(<<"a">>, <<>>),
     ImportCollection(<<CurDir>>, <<ImportCollection(<<>>, <<>>)>>)}

\* The modules whose imports are flattened: r and a::b.
Importers == {<<"r">>, <<"a", "b">>}

\* imported_resources(&imports, &parent_res).
ImportedResourcesCall ==
    /\ fcall.fn = "imports"
    /\ fcall' = [fcall EXCEPT !.fn = "imported_resources",
                              !.out = imported_resources(fcall.arg, fcall.self)]
    /\ UNCHANGED <<input, modules, order, requests, stack, lz, result,
                   assembled, renamed, mangler, calls, cr, walks, run1>>

\* The import flattener on its own, on one or two import statements.
ImportsInit ==
    /\ NoResolveCall
    /\ \E m \in Importers : \E first \in ImportShapes(m, 1) :
          \/ fcall = [self |-> m, fn |-> "imports", arg |-> <<first>>, out |-> EmptyMap]
          \/ \E second \in ImportShapes(m, 2) :
                fcall = [self |-> m, fn |-> "imports", arg |-> <<first, second>>,
                         out |-> EmptyMap]

ImportsNext == ImportedResourcesCall

ImportsSpec == ImportsInit /\ [][ImportsNext]_vars

\* A Router on its own: any calls of mount_resolver and of route.
RouterInit ==
    /\ NoResolveCall
    /\ fcall = [self |-> RouterNew, fn |-> "Router::new", arg |-> <<>>, out |-> <<>>]

RouterNext ==
    \/ MountResolver
    \/ Route

RouterSpec == RouterInit /\ [][RouterNext]_vars

\* A PkgResolver with its packages, asked for the source of a resource.
PkgInit ==
    /\ NoResolveCall
    /\ \E packages \in Registries : \E resource \in PkgPaths :
          fcall = [self |-> packages, fn |-> "PkgResolver", arg |-> resource,
                   out |-> [ok |-> FALSE, source |-> "", error |-> NoError]]

PkgNext == PkgResolveSource

PkgSpec == PkgInit /\ [][PkgNext]_vars

\* A path made into a Resource, joined with a suffix, and handed to a
\* NoResolver.
ResourceInit ==
    /\ NoResolveCall
    /\ \E path \in RawPaths : fcall = [self |-> <<>>, fn |-> "path", arg |-> path, out |-> <<>>]

ResourceNext ==
    \/ ResourceNewCall
    \/ ResourceNewAgain
    \/ ResourceJoinCall
    \/ NoResolverResolveSource

ResourceSpec == ResourceInit /\ [][ResourceNext]_vars

-----------------------------------------------------------------------------
(* What the properties speak of.                                           *)

Loaded == DOMAIN modules

\* resolve_eager or resolve_lazy has returned Ok(resolutions).
Returned == result.kind = "ok"

\* The call has returned: Ok, Err, or it has panicked.
Ended == result.kind \in {"ok", "err", "panic"}

\* The unit of module m as the caller or the resolver supplied it.
Supplied(m) == IF m = input.resource THEN input.root ELSE input.resolver[m]

Decls(m) == modules[m].source.global_declarations

\* The type expression as supplied has a module other than m as its
\* effective target, and its cell is not one of m's declarations.
PointsOutside(m, ty) ==
    /\ ty.ident \notin DOMAIN modules[m].idents
    /\ \E ext \in ExternalOf(modules[m], ty) : ~ext.local /\ ext.ext_res # m

\* The declarations whose type expressions the resolver is to have walked
\* when it returns: resolve_eager all of them;
\* resolve_lazy the treated ones and the const_asserts.
Walked(m, d) ==
    \/ input.mode = "eager"
    \/ HasIdent(Decls(m)[d]) /\ Decls(m)[d].ident \in modules[m].treated_idents
    \/ is_const_assert(Decls(m)[d])

-----------------------------------------------------------------------------
(* C1 *)

-----------------------------------------------------------------------------
(* C2 *)

\* The declarations <<module, index>> of loaded modules that a type
\* expression of m, as supplied, refers to: the local declaration whose
\* cell it has, or the declaration of the spelled name in the module its
\* path or its import points at.
RefersTo(m, ty) ==
    IF ty.ident \in DOMAIN modules[m].idents
    THEN {<<m, modules[m].idents[ty.ident]>>}
    ELSE UNION {{<<ext.ext_res, modules[ext.ext_res].idents[id]>> :
                    id \in FindByName(modules[ext.ext_res], ext.ext_id)} :
                ext \in {e \in ExternalOf(modules[m], ty) :
                            ~e.local /\ e.ext_res \in Loaded}}

RefersFrom(node) ==
    LET tys == Supplied(node[1]).global_declarations[node[2]].tys
    IN UNION {RefersTo(node[1], tys[t]) : t \in 1..Len(tys)}

RECURSIVE ReachableFrom(_)
ReachableFrom(nodes) ==
    LET more == nodes \cup UNION {RefersFrom(node) : node \in nodes}
    IN IF more = nodes THEN nodes ELSE ReachableFrom(more)

\* The entry declarations of the root.
Entries == {<<input.resource, modules[input.resource].idents[id]>> : id \in input.keep}

\* The const_asserts of the loaded modules in ms.
ConstAssertsOf(ms) == UNION {{<<m, d>> : d \in const_asserts(modules[m].source)} : m \in ms}

\* C2, as stated: after a successful resolve_lazy a named declaration of a
\* loaded module is in the treated set of its module iff it can be reached
\* through the type references from an entry identifier of the root or
\* from a const_assert of a loaded module.
C2_Original ==
    (Returned /\ input.mode = "lazy") =>
        \A m \in Loaded : \A d \in 1..Len(Decls(m)) :
            HasIdent(Decls(m)[d]) =>
                (Decls(m)[d].ident \in modules[m].treated_idents
                    <=> <<m, d>> \in ReachableFrom(Entries \cup ConstAssertsOf(Loaded)))

-----------------------------------------------------------------------------
(* C3 *)

\* The place of a loaded module in order.
Place(m) == CHOOSE i \in 1..Len(order) : order[i] = m

\* C3: the global declarations of assemble(strip = true) are exactly the
\* live declarations (the const_asserts and the declarations whose
\* identifier is treated), each once, module after module in the order of
\* insertion and in source order inside a module.
C3_StripKeepsLive ==
    (assembled.called /\ assembled.strip) =>
        LET out == assembled.wesl.global_declarations
        IN /\ \A k \in 1..Len(out) :
                 /\ out[k].at[1] \in Loaded
                 /\ out[k] = Decls(out[k].at[1])[out[k].at[2]]
                 /\ \/ out[k].kind = "ConstAssert"
                    \/ out[k].ident \in modules[out[k].at[1]].treated_idents
           /\ \A m \in Loaded : \A d \in 1..Len(Decls(m)) :
                 (\/ Decls(m)[d].kind = "ConstAssert"
                  \/ Decls(m)[d].ident \in modules[m].treated_idents)
                     => \E k \in 1..Len(out) : out[k].at = <<m, d>>
           /\ \A k, l \in 1..Len(out) :
                 k < l => \/ Place(out[k].at[1]) < Place(out[l].at[1])
                          \/ /\ out[k].at[1] = out[l].at[1]
                             /\ out[k].at[2] < out[l].at[2]

\* assemble(strip = true) after a resolve_lazy that loaded a: it keeps
\* f, g and the const_assert of the root and then the x of a, and drops
\* the y of a.
C3_Witness ==
    /\ assembled.called /\ assembled.strip
    /\ input.mode = "lazy"
    /\ order = <<R, A>>
    /\ Len(Decls(R)) = 3
    /\ Len(Decls(A)) = 2
    /\ Len(assembled.wesl.global_declarations) = 4
    /\ assembled.wesl.global_declarations[3].kind = "ConstAssert"
    /\ assembled.wesl.global_declarations[4].at = <<A, 1>>

-----------------------------------------------------------------------------
(* C4 *)

\* C4, as stated: after a successful resolve_eager every named declaration
\* of every loaded module is in the treated set of its module, and
\* assemble(strip = true) keeps every named declaration.
C4_Original ==
    (Returned /\ input.mode = "eager") =>
        /\ \A m \in Loaded : \A d \in 1..Len(Decls(m)) :
              HasIdent(Decls(m)[d]) => Decls(m)[d].ident \in modules[m].treated_idents
        /\ (assembled.called /\ assembled.strip) =>
              \A m \in Loaded : \A d \in 1..Len(Decls(m)) :
                  HasIdent(Decls(m)[d]) =>
                      \E k \in 1..Len(assembled.wesl.global_declarations) :
                          assembled.wesl.global_declarations[k] = Decls(m)[d]

\* C4, amended: after a successful resolve_eager the treated set of every
\* loaded module is empty; assemble(strip = true) keeps the const_asserts
\* only, and assemble(strip = false) keeps every named declaration.
C4_Amended ==
    (Returned /\ input.mode = "eager") =>
        /\ \A m \in Loaded : modules[m].treated_idents = {}
        /\ (assembled.called /\ assembled.strip) =>
              \A k \in 1..Len(assembled.wesl.global_declarations) :
                  assembled.wesl.global_declarations[k].kind = "ConstAssert"
        /\ (assembled.called /\ ~assembled.strip) =>
              \A m \in Loaded : \A d \in 1..Len(Decls(m)) :
                  HasIdent(Decls(m)[d]) =>
                      \E k \in 1..Len(assembled.wesl.global_declarations) :
                          assembled.wesl.global_declarations[k] = Decls(m)[d]

\* resolve_eager of a root that imports a::x and uses x in f has loaded a
\* and rewritten the use, and assemble(strip = true) has dropped f and x.
C4_Witness ==
    /\ Returned /\ input.mode = "eager"
    /\ assembled.called /\ assembled.strip
    /\ A \in Loaded
    /\ Decls(R)[1].tys = <<TypeExpression(NoPath, Cell("decl", A, 1, 0, "x"))>>
    /\ \A k \in 1..Len(assembled.wesl.global_declarations) :
          assembled.wesl.global_declarations[k].kind = "ConstAssert"

-----------------------------------------------------------------------------
(* C5 *)

\* C5: while resolve_eager or resolve_lazy runs and in the Resolutions it
\* returns, order has no path twice, starts with the root, holds exactly the
\* keys of modules, and lists the modules in the order the resolver was
\* first asked for them.
C5_OrderInvariant ==
    result.kind \in {"running", "ok"} =>
        /\ \A i, j \in 1..Len(order) : order[i] = order[j] => i = j
        /\ order # <<>> /\ order[1] = input.resource
        /\ {order[i] : i \in 1..Len(order)} = DOMAIN modules
        /\ order = <<input.resource>> \o requests

\* Both a and b are loaded, b run1.
C5_Witness ==
    /\ Returned
    /\ order = <<R, B, A>>

-----------------------------------------------------------------------------
(* C6 *)

\* The module of resource m as Module::new makes it from the unit supplied.
Fresh(m) == ModuleNew(Supplied(m), m)

\* The resources the call can come to: the root and what the resolver has.
Known == {input.resource} \cup Units(input.resolver)

\* The modules that the import statements of the unit of m name.
RECURSIVE NamedByImports(_, _, _)
NamedByImports(imports, prefix, m) ==
    IF imports = <<>> THEN {}
    ELSE LET import == Head(imports)
             path == PathExtend(prefix, import.path)
         IN (IF import.kind = "Item"
             THEN {absolute_resource(path, m)}
             ELSE NamedByImports(import.imports, path, m))
                \cup NamedByImports(Tail(imports), prefix, m)

\* The named declarations of m with a type expression that stands for a
\* declaration of the module to.
ReferringDecls(m, to) ==
    {d \in 1..Len(Supplied(m).global_declarations) :
        /\ HasIdent(Supplied(m).global_declarations[d])
        /\ \E j \in 1..Len(Supplied(m).global_declarations[d].tys) :
              LET ty == Supplied(m).global_declarations[d].tys[j]
              IN /\ ty.ident \notin DOMAIN Fresh(m).idents
                 /\ \E ext \in ExternalOf(Fresh(m), ty) :
                       /\ ~ext.local
                       /\ ext.ext_res = to
                       /\ FindByName(Fresh(to), ext.ext_id) # {}}

\* The root and the module other import each other, a declaration of each
\* refers to a declaration of the other, and the call walks the one of the
\* root: resolve_eager walks all, resolve_lazy the declarations of keep.
Cyclic(other) ==
    /\ other \in Units(input.resolver)
    /\ other \in NamedByImports(input.root.imports, <<>>, input.resource)
    /\ input.resource \in NamedByImports(Supplied(other).imports, <<>>, other)
    /\ ReferringDecls(other, input.resource) # {}
    /\ \E d \in ReferringDecls(input.resource, other) :
          input.mode = "lazy" => input.root.global_declarations[d].ident \in input.keep

\* C6, as stated: when the root and a module import each other and each
\* refers to a declaration of the other, resolve_eager and resolve_lazy
\* return Err(CircularDependency) of one of the two and no Resolutions.
C6_Original ==
    \A other \in Units(input.resolver) :
        (Cyclic(other) /\ Ended) =>
            /\ result \in {Result("err", CircularDependency(input.resource)),
                           Result("err", CircularDependency(other))}
            /\ modules = EmptyMap

-----------------------------------------------------------------------------
(* C7 *)

\* Two leaves of the import statements of the root have the same alias.
DuplicateAliases ==
    LET leaves == ImportLeaves(input.root.imports)
    IN {Name(leaves[k]) : k \in {k \in 1..Len(leaves) :
            \E l \in 1..Len(leaves) : l # k /\ Name(leaves[l]) = Name(leaves[k])}}

\* C7, as stated: when two imports of the root have the same alias the call
\* (resolve_eager, or resolve_lazy with a keep set the root declares)
\* returns Err(DuplicateSymbol(alias)), and it has walked no declaration
\* and asked the resolver for no module.
C7_Original ==
    (DuplicateAliases # {} /\ input.keep \subseteq DOMAIN Fresh(input.resource).idents
            /\ Ended) =>
        /\ \E alias \in DuplicateAliases : result = Result("err", DuplicateSymbol(alias))
        /\ requests = <<>>
        /\ modules = EmptyMap

-----------------------------------------------------------------------------
(* C8 *)

\* The (ext_res, ext_id) that the step the walk is at looks up in the idents
\* of an external module, loaded or loadable: in resolve_eager the lookup
\* after the recursive call or that of a type expression whose module is
\* loaded, in resolve_lazy that of resolve_ty.
Lookups ==
    IF result.kind # "running" THEN {}
    ELSE IF input.mode = "eager"
    THEN IF stack = <<>> \/ Top.todo # {} THEN {}
         ELSE IF ~Top.pend.local THEN {Top.pend}
         ELSE IF Top.n > Len(AllTys(modules[Top.res].source)) THEN {}
         ELSE LET pos == AllTys(modules[Top.res].source)[Top.n]
                  ty == modules[Top.res].source.global_declarations[pos[1]].tys[pos[2]]
              IN {ext \in ExternalOf(modules[Top.res], ty) :
                     ~ext.local /\ ext.ext_res # Top.res /\ ext.ext_res \in Loaded}
    ELSE IF lz.phase # "tys" THEN {}
    ELSE LET ty == modules[lz.res].source.global_declarations[lz.decl].tys[lz.ty]
         IN IF ty.ident \in modules[lz.res].treated_idents THEN {}
            ELSE {ext \in ExternalOf(modules[lz.res], ty) :
                     ~ext.local /\ ext.ext_res # lz.res /\ ext.ext_res \in Known}

\* The place <<module, declaration, type expression>> of the type expression
\* the walk is at.
At ==
    IF input.mode = "eager"
    THEN LET n == IF Top.n > Len(AllTys(modules[Top.res].source)) THEN 1 ELSE Top.n
             pos == AllTys(modules[Top.res].source)[n]
         IN <<Top.res, pos[1], pos[2]>>
    ELSE <<lz.res, lz.decl, lz.ty>>

\* The external module of a lookup, loaded now if it was not.
ExtMod(ext) == IF ext.ext_res \in Loaded THEN modules[ext.ext_res] ELSE Fresh(ext.ext_res)

\* The step from this state looked ext up by name: an external module
\* without a declaration of that name gave Err(MissingDecl), any other gave
\* the type expression the identifier of a declaration of that name.
LookedUp(ext) ==
    IF FindByName(ExtMod(ext), ext.ext_id) = {}
    THEN result' = Result("err", MissingDecl(ext.ext_res, Name(ext.ext_id)))
    ELSE /\ result'.kind = "running"
         /\ At[1] \in DOMAIN modules'
         /\ LET ty == modules'[At[1]].source.global_declarations[At[2]].tys[At[3]]
            IN /\ ty.path = NoPath
               /\ ty.ident \in FindByName(ExtMod(ext), ext.ext_id)

\* C8, as stated: every lookup of a spelled name N in an external module X
\* that lacks N ends the call with Err(MissingDecl(X, N)), and every lookup
\* in a module that declares N succeeds, whatever the cell of the reference.
C8_Original ==
    [][(Lookups # {} /\ (input.mode = "eager" => requests' = requests))
            => \E ext \in Lookups : LookedUp(ext)]_vars

-----------------------------------------------------------------------------
(* C9 *)

\* C9: a request the resolver answers with an error is the last request of
\* the call, and the call has returned that error as ResolveError and no
\* Resolutions.
C9_ResolveErrorEnds ==
    \A i \in 1..Len(requests) :
        requests[i] \notin Units(input.resolver) =>
            /\ i = Len(requests)
            /\ result = Result("err", ResolveError(
                              IF requests[i] \in DOMAIN input.resolver
                              THEN input.resolver[requests[i]]
                              ELSE FileNotFound(requests[i])))
            /\ modules = EmptyMap
            /\ order = <<>>
            /\ ~assembled.called

\* resolve_eager of a root that imports a, whose x refers to n::q: the load
\* of n, two calls deep, has failed and the call has returned the error.
C9_Witness ==
    /\ input.mode = "eager"
    /\ requests = <<A, N>>
    /\ result = Result("err", ResolveError(FileNotFound(N)))
    /\ modules = EmptyMap

-----------------------------------------------------------------------------
(* C10 *)

\* C10: after a successful resolve_eager every module that an import
\* statement of a loaded module names is loaded.
C10_ClosedUnderImports ==
    (Returned /\ input.mode = "eager") =>
        \A m \in Loaded :
            NamedByImports(Supplied(m).imports, <<>>, m) \subseteq Loaded

\* resolve_eager of a root that imports b::u and refers to nothing outside
\* has loaded b, and a, which b imports, though no declaration refers to them.
C10_Witness ==
    /\ Returned /\ input.mode = "eager"
    /\ order = <<R, B, A>>
    /\ \A m \in Loaded : \A d \in 1..Len(Decls(m)) :
          \A j \in 1..Len(Supplied(m).global_declarations[d].tys) :
              Supplied(m).global_declarations[d].tys[j].ident \in DOMAIN modules[m].idents

-----------------------------------------------------------------------------
(* C11 *)

\* The const_assert declarations <<module, index>> of the loaded modules.
LoadedConstAsserts ==
    UNION {{<<m, d>> : d \in {d \in 1..Len(Decls(m)) : is_const_assert(Decls(m)[d])}} :
              m \in Loaded}

\* C11: every step of resolve_lazy that asks the resolver for a module is
\* the walk of a type expression that stands for a declaration of that
\* module, inside a declaration that is a const_assert or is treated, and
\* that can be reached from the entry identifiers or from a const_assert.
C11_LazyLoadsOnReference ==
    [][(input.mode = "lazy" /\ requests' # requests) =>
          /\ lz.phase = "tys"
          /\ LET decl == Decls(lz.res)[lz.decl]
             IN /\ \/ is_const_assert(decl)
                   \/ decl.ident \in modules[lz.res].treated_idents
                /\ <<lz.res, lz.decl>> \in ReachableFrom(Entries \cup LoadedConstAsserts)
                /\ \E ext \in ExternalOf(modules[lz.res], decl.tys[lz.ty]) :
                      /\ ~ext.local
                      /\ requests' = Append(requests, ext.ext_res)]_vars

\* resolve_lazy of a root that imports b::u and whose f refers to a::x has
\* returned: it asked for a, and b, which no walked declaration refers to,
\* is not loaded.
C11_Witness ==
    /\ Returned /\ input.mode = "lazy"
    /\ B \in NamedByImports(input.root.imports, <<>>, input.resource)
    /\ requests = <<A>>
    /\ B \notin Loaded

-----------------------------------------------------------------------------
(* C12 *)

\* The root has `import pkg::lib as L;`, f refers to L::math::pi and g to
\* nothing, and the call walks f.
AliasPathInput ==
    /\ input.root.imports = <<ItemAs(R, 1, Pkg, "lib", "L")>>
    /\ input.root.global_declarations[2].tys = <<>>
    /\ input.root.global_declarations[1].tys =
           <<TypeExpression(<<RootDir, "L", "math">>, Cell("use", R, 1, 1, "pi"))>>
    /\ input.mode = "lazy" => input.root.global_declarations[1].ident \in input.keep

\* C12, as stated: for that root, with a resolver that has pkg::lib::math
\* and neither pkg nor pkg::lib, resolve_eager and resolve_lazy succeed,
\* the loaded modules are the root and pkg::lib::math, and the reference
\* has no path and the cell of the declaration pi.
C12_Original ==
    (AliasPathInput /\ Ended) =>
        /\ Returned
        /\ Loaded = {input.resource, PkgLibMath}
        /\ Decls(input.resource)[1].tys =
               <<TypeExpression(NoPath, Cell("decl", PkgLibMath, 1, 0, "pi"))>>

-----------------------------------------------------------------------------
(* C13 *)

\* How often the mangler was asked for call.
TimesAsked(asked, call) == IF call \in DOMAIN asked THEN asked[call] ELSE 0

\* The named declarations <<module, index>> of the loaded modules but the root.
NonRootNamed ==
    UNION {{<<m, d>> : d \in {d \in 1..Len(Decls(m)) : HasIdent(Decls(m)[d])}} :
              m \in Loaded \ {input.resource}}

\* C13: a call of mangle gives every named declaration of every loaded
\* module but the root, at path P, the name the mangler answers for P and
\* the name it had, asks the mangler once for each of them and for nothing
\* else, and leaves the names of the declarations of the root as they were.
C13_MangleRenamesNonRoot ==
    [][mangler'.runs # mangler.runs =>
          /\ \A node \in NonRootNamed :
                LET id == Decls(node[1])[node[2]].ident
                IN NameNow(renamed', id) = mangler_mangle(node[1], NameNow(renamed, id))
          /\ \A d \in 1..Len(Decls(input.resource)) :
                HasIdent(Decls(input.resource)[d]) =>
                    NameNow(renamed', Decls(input.resource)[d].ident)
                        = NameNow(renamed, Decls(input.resource)[d].ident)
          /\ \A call \in DOMAIN mangler'.asked :
                TimesAsked(mangler'.asked, call) - TimesAsked(mangler.asked, call)
                    = Cardinality({node \in NonRootNamed :
                          call = <<node[1], NameNow(renamed, Decls(node[1])[node[2]].ident)>>})]_vars

\* mangle has run on a Resolutions with the root, b and a: the x of a is
\* named a_x, the u of b is named b_u, and f still has its name.
C13_Witness ==
    /\ mangler.runs = 1
    /\ order = <<R, B, A>>
    /\ NameNow(renamed, Cell("decl", A, 1, 0, "x")) = "a_x"
    /\ NameNow(renamed, Cell("decl", B, 1, 0, "u")) = "b_u"
    /\ NameNow(renamed, Cell("decl", R, 1, 0, "f")) = "f"
    /\ TimesAsked(mangler.asked, <<A, "x">>) = 1

-----------------------------------------------------------------------------
(* C14 *)

\* The type expressions of decls read the mangled name of the declaration
\* whose cell they have, when that is a declaration of a loaded module
\* other than the root.
ReadMangled(decls) ==
    \A k \in 1..Len(decls) : \A t \in 1..Len(decls[k].tys) :
        \A m \in Loaded \ {input.resource} :
            decls[k].tys[t].ident \in DOMAIN modules[m].idents =>
                NameNow(renamed, decls[k].tys[t].ident)
                    = mangler_mangle(m, Name(decls[k].tys[t].ident))

\* C14: after a successful resolution and one call of mangle, every type
\* expression of a loaded module whose cell is that of a declaration of a
\* module other than the root reads the mangled name of that declaration,
\* and so do the declarations and the type expressions of the unit that
\* assemble returns.
C14_RenameObserved ==
    (Returned /\ mangler.runs = 1) =>
        /\ \A m \in Loaded : ReadMangled(Decls(m))
        /\ assembled.called =>
              /\ ReadMangled(assembled.wesl.global_declarations)
              /\ \A k \in 1..Len(assembled.wesl.global_declarations) :
                    LET decl == assembled.wesl.global_declarations[k]
                    IN (HasIdent(decl) /\ decl.at[1] # input.resource) =>
                           NameNow(renamed, decl.ident)
                               = mangler_mangle(decl.at[1], Name(decl.ident))

\* resolve_eager has rewritten the x in f to the x of a, mangle has run and
\* assemble(strip = false) has returned f, whose type expression reads a_x,
\* and the declaration x of a, named a_x.
C14_Witness ==
    /\ Returned /\ mangler.runs = 1
    /\ assembled.called /\ ~assembled.strip
    /\ Decls(R)[1].tys = <<TypeExpression(NoPath, Cell("decl", A, 1, 0, "x"))>>
    /\ NameNow(renamed, Decls(R)[1].tys[1].ident) = "a_x"
    /\ \E k \in 1..Len(assembled.wesl.global_declarations) :
          /\ assembled.wesl.global_declarations[k].at = <<A, 1>>
          /\ NameNow(renamed, assembled.wesl.global_declarations[k].ident) = "a_x"

-----------------------------------------------------------------------------
(* C15 *)

\* C15, as stated: the global directives of the unit assemble returns hold
\* every directive of every loaded module, and no directive twice.
C15_Original ==
    assembled.called =>
        LET out == assembled.wesl.global_directives
        IN /\ \A m \in Loaded :
                 \A i \in 1..Len(modules[m].source.global_directives) :
                     \E k \in 1..Len(out) : out[k] = modules[m].source.global_directives[i]
           /\ \A k, l \in 1..Len(out) : out[k] = out[l] => k = l

-----------------------------------------------------------------------------
(* C16 *)

\* The declarations of the modules at the resources of ord, one list after
\* the other.
RECURSIVE DeclsOf(_)
DeclsOf(ord) == IF ord = <<>> THEN <<>> ELSE Decls(Head(ord)) \o DeclsOf(Tail(ord))

\* C16: the global declarations of assemble(strip = false) are the
\* declaration lists of the loaded modules, whole and in source order, one
\* after the other in the order of insertion.
C16_NoStripKeepsAll ==
    (assembled.called /\ ~assembled.strip) =>
        assembled.wesl.global_declarations = DeclsOf(order)

\* assemble(strip = false) after a resolve_lazy that loaded b and then a:
\* all seven declarations, those of the root first and those of a last,
\* the y of a, which is not treated, among them.
C16_Witness ==
    /\ assembled.called /\ ~assembled.strip
    /\ input.mode = "lazy"
    /\ order = <<R, B, A>>
    /\ Len(assembled.wesl.global_declarations) = 7
    /\ assembled.wesl.global_declarations[4].at = <<B, 1>>
    /\ assembled.wesl.global_declarations[7].at = <<A, 3>>
    /\ assembled.wesl.global_declarations[6].at = <<A, 2>>
    /\ Decls(A)[2].ident \notin modules[A].treated_idents

-----------------------------------------------------------------------------
(* C17 *)

\* The declarations <<module, index>> that a type expression of the unit of
\* m stands for, read off the units as supplied: the local declaration
\* whose cell it has, or the declarations of the spelled name in every
\* module its path or its import can mean.
StandsFor(m, ty) ==
    IF ty.ident \in DOMAIN Fresh(m).idents
    THEN {<<m, Fresh(m).idents[ty.ident]>>}
    ELSE UNION {{<<ext.ext_res, Fresh(ext.ext_res).idents[id]>> :
                    id \in FindByName(Fresh(ext.ext_res), ext.ext_id)} :
                ext \in {e \in ExternalOf(Fresh(m), ty) :
                            ~e.local /\ e.ext_res # m /\ e.ext_res \in Known}}

\* The declarations a walk that starts at nodes comes to.
RECURSIVE WalkFrom(_)
WalkFrom(nodes) ==
    LET more == nodes \cup UNION {UNION {StandsFor(node[1], ty) :
                    ty \in {Supplied(node[1]).global_declarations[node[2]].tys[t] :
                               t \in 1..Len(Supplied(node[1]).global_declarations[node[2]].tys)}} :
                 node \in nodes}
    IN IF more = nodes THEN nodes ELSE WalkFrom(more)

\* The external modules the type expressions of the declarations nodes stand for.
Targets(nodes) ==
    UNION {UNION {{ext.ext_res : ext \in {e \in ExternalOf(Fresh(node[1]), ty) :
                                     /\ ~e.local
                                     /\ ty.ident \notin DOMAIN Fresh(node[1]).idents}} :
                ty \in {Supplied(node[1]).global_declarations[node[2]].tys[t] :
                           t \in 1..Len(Supplied(node[1]).global_declarations[node[2]].tys)}} :
           node \in nodes}

\* The modules resolve_eager loads, read off the input: the root, and with a
\* module the modules its imports name and its type expressions stand for.
RECURSIVE EagerClosure(_)
EagerClosure(ms) ==
    LET known == ms \cap Known
        more == ms \cup UNION {NamedByImports(Supplied(m).imports, <<>>, m) : m \in known}
                   \cup Targets(UNION {{<<m, d>> : d \in 1..Len(Supplied(m).global_declarations)} :
                                          m \in known})
    IN IF more = ms THEN ms ELSE EagerClosure(more)

\* The modules the call loads, read off the input alone; for resolve_lazy
\* the root and the modules the walk from keep and from the const_asserts
\* of the root comes to.
LoadedByInput ==
    IF input.mode = "eager"
    THEN EagerClosure({input.resource})
    ELSE LET start == {<<input.resource, Fresh(input.resource).idents[id]>> :
                          id \in input.keep}
                      \cup {<<input.resource, d>> : d \in const_asserts(input.root)}
         IN {input.resource} \cup Targets(WalkFrom(start))

\* C17, as stated: the modules a successful resolve_eager or resolve_lazy
\* has loaded are a function of the root, the entry set and the resolver,
\* whatever the order of the hash maps and sets, and order is the order of
\* the first requests.
C17_Original ==
    Returned =>
        /\ Loaded = LoadedByInput
        /\ order = <<input.resource>> \o requests

-----------------------------------------------------------------------------
(* C18 *)

\* C18, as stated: a call of resolve_eager on a root that a successful
\* resolve_eager has resolved, with the same resolver, changes no type
\* expression of the root: at every point of the call each has no path and
\* holds the cell it held when the call began.
C18_Original ==
    (input.mode = "eager" /\ calls > 1 /\ input.resource \in Loaded) =>
        \A d \in DOMAIN Decls(input.resource) : \A t \in DOMAIN Decls(input.resource)[d].tys :
            /\ Decls(input.resource)[d].tys[t] = input.root.global_declarations[d].tys[t]
            /\ Decls(input.resource)[d].tys[t].path = NoPath

\* C18, amended: such a call changes no type expression of the root: at
\* every point of the call each holds the path and the cell it held when
\* the call began, and the path is absent unless it names the root itself
\* and the cell is the defining cell of a declaration of the root.
C18_Amended ==
    (input.mode = "eager" /\ calls > 1 /\ input.resource \in Loaded) =>
        \A d \in DOMAIN Decls(input.resource) : \A t \in DOMAIN Decls(input.resource)[d].tys :
            LET ty == Decls(input.resource)[d].tys[t]
            IN /\ ty = input.root.global_declarations[d].tys[t]
               /\ \/ ty.path = NoPath
                  \/ /\ ty.ident \in DOMAIN modules[input.resource].idents
                     /\ \A ext \in ExternalOf(modules[input.resource], ty) :
                           ~ext.local /\ ext.ext_res = input.resource

\* The second call has returned; it asked the resolver again, the root
\* holds a cell of a module the first call loaded, and a reference of the
\* root to a declaration of the root still has its path.
C18_Witness ==
    /\ input.mode = "eager"
    /\ calls = 2
    /\ Returned
    /\ requests # <<>>
    /\ \E d \in DOMAIN Decls(input.resource) : \E t \in DOMAIN Decls(input.resource)[d].tys :
          Decls(input.resource)[d].tys[t].ident.k = "earlier"
    /\ \E d \in DOMAIN Decls(input.resource) : \E t \in DOMAIN Decls(input.resource)[d].tys :
          /\ Decls(input.resource)[d].tys[t].path = input.resource
          /\ Decls(input.resource)[d].tys[t].ident \in DOMAIN modules[input.resource].idents

-----------------------------------------------------------------------------
(* C19 *)

\* The declarations of the result that are live: all of them after
\* resolve_eager, the treated ones and the const_asserts after resolve_lazy.
LiveInResult(m) ==
    {d \in DOMAIN Decls(m) :
        \/ input.mode = "eager"
        \/ Decls(m)[d].kind = "ConstAssert"
        \/ Decls(m)[d].ident \in modules[m].treated_idents}

\* C19, as stated: in a successful call, of either mode, each type expression
\* of a live declaration that named a declaration of another module holds no
\* path and the cell of one declaration (module, index) that the root and
\* the resolver fix; so resolve_lazy and resolve_eager rewrite it alike.
C19_Original ==
    Returned =>
        \A m \in Loaded : \A d \in LiveInResult(m) : \A t \in DOMAIN Decls(m)[d].tys :
            LET was == Supplied(m).global_declarations[d].tys[t]
                now == Decls(m)[d].tys[t]
            IN (/\ was.ident \notin DOMAIN Fresh(m).idents
                /\ \E ext \in ExternalOf(Fresh(m), was) : ~ext.local /\ ext.ext_res # m)
               => /\ now.path = NoPath
                  /\ now.ident \in DOMAIN modules[now.ident.m].idents
                  /\ StandsFor(m, was) = {<<now.ident.m, modules[now.ident.m].idents[now.ident]>>}

-----------------------------------------------------------------------------
(* C20 *)

\* C20, as stated: over any calls of resolve_source and resolve_module on a
\* CacheResolver, the wrapped resolver's resolve_source returns a source at
\* most once for each resource, and every answer for a resource is made of
\* the same source.
C20_Original ==
    \A resource \in CachePaths :
        /\ cr.fetched[resource] <= 1
        /\ Cardinality(cr.served[resource]) <= 1

-----------------------------------------------------------------------------
(* C21 *)

\* The calls of mount_resolver whose prefix is a prefix, by components, of
\* the resource.
Matching(router, resource) ==
    {i \in 1..Len(router.mounts) : StartsWith(resource, router.mounts[i][1])}

\* C21, as stated: route selects, of the mounted pairs whose prefix is a
\* prefix of the resource, the one with the longest prefix, of several of
\* that length the one mounted first, and answers its resolver with the
\* resource stripped of the prefix.
C21_Original ==
    (fcall.fn = "route" /\ Matching(fcall.self, fcall.arg) # {}) =>
        \E i \in Matching(fcall.self, fcall.arg) :
            /\ \A j \in Matching(fcall.self, fcall.arg) :
                  \/ Len(fcall.self.mounts[j][1]) < Len(fcall.self.mounts[i][1])
                  \/ Len(fcall.self.mounts[j][1]) = Len(fcall.self.mounts[i][1]) /\ i <= j
            /\ fcall.out.ok
            /\ fcall.out.resolver = fcall.self.mounts[i][2]
            /\ fcall.out.resource = strip_prefix(fcall.arg, fcall.self.mounts[i][1])

-----------------------------------------------------------------------------
(* C22 *)

\* C22, as stated: NoResolver.resolve_source returns
\* ResolveError::FileNotFound for every resource.
C22_Original ==
    fcall.fn = "NoResolver::resolve_source" =>
        ~fcall.out.ok /\ fcall.out.error.tag = "FileNotFound"

-----------------------------------------------------------------------------
(* C23 *)

\* The normal form the statement describes, of the components comps read
\* after lead (a root or a leading `.`), ups parent steps and the Normal
\* segments normals: `..` removes the Normal segment before it if there is
\* one and is one more parent step otherwise; `.` is dropped unless it
\* leads the path.
RECURSIVE Normalised(_, _, _, _)
Normalised(lead, ups, normals, comps) ==
    IF comps = <<>> THEN lead \o ups \o normals
    ELSE LET comp == Head(comps)
         IN CASE comp = RootDir -> Normalised(<<RootDir>>, <<>>, <<>>, Tail(comps))
              [] comp = CurDir -> Normalised(lead, ups, normals, Tail(comps))
              [] comp = ParentDir ->
                    IF normals # <<>>
                    THEN Normalised(lead, ups, Pop(normals), Tail(comps))
                    ELSE Normalised(lead, Append(ups, ParentDir), normals, Tail(comps))
              [] OTHER -> Normalised(lead, ups, Append(normals, comp), Tail(comps))

NormalForm(path) ==
    IF path # <<>> /\ Head(path) = CurDir
    THEN Normalised(<<CurDir>>, <<>>, <<>>, Tail(path))
    ELSE Normalised(<<>>, <<>>, <<>>, path)

\* C23, as stated: Resource::new, and join on the path with the suffix
\* pushed, return the normal form the statement describes.
C23_Original ==
    /\ fcall.fn = "Resource::new" => fcall.out = NormalForm(fcall.arg)
    /\ fcall.fn = "join" => fcall.out = NormalForm(PathPush(fcall.self, fcall.arg))

-----------------------------------------------------------------------------
(* C24 *)

\* The leaf items of imports, each with the paths of the collections around
\* it and its own path put one after the other (prefix: the paths of the
\* collections around imports).
RECURSIVE LeafItems(_, _)
LeafItems(imports, prefix) ==
    IF imports = <<>> THEN <<>>
    ELSE LET import == Head(imports)
         IN (IF import.kind = "Item"
             THEN <<[ident |-> import.ident, rename |-> import.rename,
                     path |-> prefix \o import.path]>>
             ELSE LeafItems(import.imports, prefix \o import.path))
            \o LeafItems(Tail(imports), prefix)

\* C24: the table imported_resources returns has one entry for each leaf
\* item, at any depth, and no other: its key the rename if there is one,
\* else the item identifier; its value the path of the leaf, joined to the
\* path of the importing module if relative and as it is otherwise, and the
\* item identifier.
C24_OneEntryPerLeaf ==
    fcall.fn = "imported_resources" =>
        LET leaves == LeafItems(fcall.arg, <<>>)
            key(l) == IF leaves[l].rename # NoIdent THEN leaves[l].rename ELSE leaves[l].ident
        IN /\ DOMAIN fcall.out = {key(l) : l \in DOMAIN leaves}
           /\ Cardinality(DOMAIN fcall.out) = Len(leaves)
           /\ \A l \in DOMAIN leaves :
                 fcall.out[key(l)] =
                     <<IF StartsWithDot(leaves[l].path)
                       THEN ResourceJoin(fcall.self, leaves[l].path)
                       ELSE leaves[l].path,
                       leaves[l].ident>>

\* The imports of a::b were  import super::{c::{d::x}, y};  import a::{};
\* and the table has the two leaves of the first and nothing else, x under
\* a::c::d.
C24_Witness ==
    /\ fcall.fn = "imported_resources"
    /\ fcall.self = <<"a", "b">>
    /\ Len(fcall.arg) = 2
    /\ fcall.arg[1].kind = "Collection" /\ fcall.arg[1].path = <<ParentDir>>
    /\ fcall.arg[2] = ImportCollection(<<"a">>, <<>>)
    /\ Cardinality(DOMAIN fcall.out) = 2
    /\ \E id \in DOMAIN fcall.out : fcall.out[id] = <<<<"a", "c", "d">>, id>> /\ Name(id) = "x"

-----------------------------------------------------------------------------
(* C25 *)

\* C25, as stated: when resolve_lazy has returned Ok, every const_assert of
\* every loaded module has been walked: none of its type expressions that
\* named a declaration of another module has a path left, and every named
\* declaration it refers to is in the treated set of its module.
C25_Original ==
    (Returned /\ input.mode = "lazy") =>
        \A m \in Loaded : \A d \in const_asserts(modules[m].source) :
            /\ \A t \in DOMAIN Decls(m)[d].tys :
                  (\E ext \in ExternalOf(Fresh(m), Supplied(m).global_declarations[d].tys[t]) :
                      ~ext.local /\ ext.ext_res # m)
                  => Decls(m)[d].tys[t].path = NoPath
            /\ \A node \in RefersFrom(<<m, d>>) :
                  HasIdent(Decls(node[1])[node[2]]) =>
                      Decls(node[1])[node[2]].ident \in modules[node[1]].treated_idents

-----------------------------------------------------------------------------
(* C26 *)

\* The places <<module, index>> of the declarations assemble has emitted.
Emitted ==
    {assembled.wesl.global_declarations[k].at :
        k \in DOMAIN assembled.wesl.global_declarations}

\* C26, as stated: after a successful resolve_lazy the unit
\* assemble(strip = true) returns is closed under references: a declaration
\* of a loaded module that a type expression of an emitted declaration
\* names is emitted too.
C26_Original ==
    (Returned /\ input.mode = "lazy" /\ assembled.called /\ assembled.strip) =>
        \A node \in Emitted : RefersFrom(node) \subseteq Emitted

-----------------------------------------------------------------------------
(* C27 *)

\* C27, as stated: in resolve_eager the module whose idents are read to
\* rewrite a reference is never borrowed mutably by an enclosing walk, so
\* the read never aborts the call.
C27_Original ==
    input.mode = "eager" =>
        /\ result.kind # "panic"
        /\ \A ext \in Lookups : ext.ext_res \notin BorrowedMut

-----------------------------------------------------------------------------
(* C28 *)

\* C28: every call of resolve_lazy returns, Ok or Err, also on modules that
\* import one another and declarations that refer to one another: both
\* loops come to an empty worklist.
C28_LazyTerminates == <>(Ended /\ (Returned => lz = LazyIdle))

\* resolve_lazy has returned Ok on r and a importing one another, with f of
\* r referring to x of a and x of a to f of r.
C28_Witness ==
    /\ Returned
    /\ input.mode = "lazy"
    /\ A \in Loaded
    /\ \E t \in DOMAIN Decls(R)[1].tys : Decls(R)[1].tys[t].ident = Decls(A)[1].ident
    /\ \E t \in DOMAIN Decls(A)[1].tys : Decls(A)[1].tys[t].ident = Decls(R)[1].ident
    /\ R \in NamedByImports(Supplied(A).imports, <<>>, A)
    /\ A \in NamedByImports(Supplied(R).imports, <<>>, R)

-----------------------------------------------------------------------------
(* C29 *)

\* C29: during one call of resolve_eager or resolve_lazy, and when it has
\* ended, the resolver's resolve_module has been called at most once for
\* each path and never for the path of the root.
C29_RequestedOnce ==
    /\ \A i, j \in DOMAIN requests : requests[i] = requests[j] => i = j
    /\ \A i \in DOMAIN requests : requests[i] # input.resource

\* resolve_eager has returned; r and b both import from a, a imports from
\* r, and a was asked for once.
C29_Witness ==
    /\ Returned
    /\ input.mode = "eager"
    /\ calls = 1
    /\ requests = <<B, A>>
    /\ A \in NamedByImports(Supplied(R).imports, <<>>, R)
    /\ A \in NamedByImports(Supplied(B).imports, <<>>, B)
    /\ R \in NamedByImports(Supplied(A).imports, <<>>, A)

-----------------------------------------------------------------------------
(* C30 *)

\* C30: when resolve_lazy has returned Ok, every named declaration that is
\* not in the treated set of its module has its type expressions, path and
\* identifier cell, as the unit supplied had them.
C30_UntreatedUnchanged ==
    (Returned /\ input.mode = "lazy") =>
        \A m \in Loaded : \A d \in DOMAIN Decls(m) :
            (HasIdent(Decls(m)[d]) /\ Decls(m)[d].ident \notin modules[m].treated_idents)
                => Decls(m)[d].tys = Supplied(m).global_declarations[d].tys

\* resolve_lazy has returned Ok with f treated and rewritten and g not
\* treated, g still holding its path b::u.
C30_Witness ==
    /\ Returned
    /\ input.mode = "lazy"
    /\ Decls(R)[1].ident \in modules[R].treated_idents
    /\ Decls(R)[2].ident \notin modules[R].treated_idents
    /\ Decls(R)[1].tys # Supplied(R).global_declarations[1].tys
    /\ Len(Decls(R)[2].tys) = 1
    /\ Decls(R)[2].tys[1].path = B

-----------------------------------------------------------------------------
(* C31 *)

\* How often resolve_decl has walked the type expressions of declaration d
\* of module m.
Walks(m, d) == IF <<m, d>> \in DOMAIN walks THEN walks[<<m, d>>] ELSE 0

\* The declarations of module res that wait in next_decls.
Queued(decls, res) == IF res \in DOMAIN decls THEN decls[res] ELSE {}

\* C31: in resolve_lazy the type expressions of a named declaration are
\* walked at most once in a call; a queued declaration whose identifier is
\* treated is left without a walk, and resolve_ty queues an external
\* declaration only when its identifier is not treated in its module.
C31_WalkedOnce ==
    /\ [](\A m \in Loaded : \A d \in DOMAIN Decls(m) :
              HasIdent(Decls(m)[d]) =>
                  /\ Walks(m, d) <= 1
                  /\ Walks(m, d) = 1 <=> Decls(m)[d].ident \in modules[m].treated_idents)
    /\ [][/\ (lz.phase = "decls" /\ lz'.iter # lz.iter) =>
                \A d \in lz.iter \ lz'.iter :
                    already_treated(modules[lz.res], Decls(lz.res)[d]) =>
                        /\ walks' = walks
                        /\ modules' = modules
                        /\ lz'.phase = "decls"
          /\ (lz.phase = "tys" /\ lz'.next_decls # lz.next_decls) =>
                \A res \in DOMAIN lz'.next_decls :
                    \A d \in lz'.next_decls[res] \ Queued(lz.next_decls, res) :
                        /\ res \in DOMAIN modules'
                        /\ modules'[res].source.global_declarations[d].ident
                              \notin modules'[res].treated_idents]_vars

\* resolve_lazy is in a later pass of the loop of resolve_decls over the
\* root, and has left a declaration of that pass that was in the first
\* pass as well: it was walked once.
C31_Witness ==
    /\ input.mode = "lazy"
    /\ result.kind = "running"
    /\ lz.phase = "decls"
    /\ lz.res = R
    /\ lz.local_decls # lz.decls[R]
    /\ \E d \in (lz.local_decls \cap lz.decls[R]) \ lz.iter :
          /\ already_treated(modules[R], Decls(R)[d])
          /\ Walks(R, d) = 1

-----------------------------------------------------------------------------
(* C32 *)

\* C32: no step of resolve_lazy, and no later call of mangle or of
\* assemble, takes an identifier out of the treated set of a module of the
\* Resolutions: a module that stays in the Resolutions keeps every
\* identifier its treated set had.
C32_TreatedGrows ==
    [][input.mode = "lazy" =>
          \A m \in DOMAIN modules :
              m \in DOMAIN modules' =>
                  modules[m].treated_idents \subseteq modules'[m].treated_idents]_vars

\* resolve_lazy has returned with f, g and the x of a treated, and mangle
\* and assemble(strip = true) have been called since: all three are still
\* treated and are in the unit assembled.
C32_Witness ==
    /\ Returned
    /\ input.mode = "lazy"
    /\ mangler.runs = 1
    /\ assembled.called /\ assembled.strip
    /\ A \in Loaded
    /\ {Decls(R)[1].ident, Decls(R)[2].ident} \subseteq modules[R].treated_idents
    /\ Decls(A)[1].ident \in modules[A].treated_idents
    /\ {<<R, 1>>, <<R, 2>>, <<A, 1>>} \subseteq Emitted

-----------------------------------------------------------------------------
(* C33 *)

\* The keys of the import table of module m that have the name of id.
KeysNamed(m, id) == {k \in DOMAIN modules[m].imports : Name(k) = Name(id)}

\* C33, as stated: after a successful call, in both modes, a type
\* expression of a walked declaration that was supplied without a path,
\* with an identifier that is no declaration of its module and has the name
\* of a key of the import table of its module, the key standing for a
\* declaration of another module, holds the identifier of the declaration
\* of the imported name in that module, whether its cell was the key or not.
C33_Original ==
    Returned =>
        \A m \in Loaded : \A d \in DOMAIN Decls(m) : \A t \in DOMAIN Decls(m)[d].tys :
            LET ty == Decls(m)[d].tys[t]
                was == Supplied(m).global_declarations[d].tys[t]
            IN (/\ Walked(m, d)
                /\ was.path = NoPath
                /\ was.ident \notin DOMAIN modules[m].idents
                /\ Cardinality(KeysNamed(m, was.ident)) = 1) =>
                   \A k \in KeysNamed(m, was.ident) :
                       LET ext_res == modules[m].imports[k][1]
                           ext_id == modules[m].imports[k][2]
                       IN ext_res # m =>
                              /\ ext_res \in Loaded
                              /\ ty.path = NoPath
                              /\ ty.ident \in DOMAIN modules[ext_res].idents
                              /\ Name(ty.ident) = Name(ext_id)

-----------------------------------------------------------------------------
(* C34 *)

\* The type expression the walk is at, with its module, when the step from
\* this state classifies it and finds its effective target, by path or by
\* alias, to be the module walked.
SelfTargets ==
    IF result.kind # "running" THEN {}
    ELSE IF input.mode = "eager"
    THEN IF stack = <<>> \/ Top.todo # {} \/ ~Top.pend.local
              \/ Top.n > Len(AllTys(modules[Top.res].source))
         THEN {}
         ELSE LET ty == Decls(At[1])[At[2]].tys[At[3]]
              IN IF \A ext \in ExternalOf(modules[Top.res], ty) :
                        ~ext.local /\ ext.ext_res = Top.res
                 THEN {<<Top.res, ty>>} ELSE {}
    ELSE IF lz.phase # "tys" THEN {}
    ELSE LET ty == Decls(lz.res)[lz.decl].tys[lz.ty]
         IN IF /\ ty.ident \notin modules[lz.res].treated_idents
               /\ \A ext \in ExternalOf(modules[lz.res], ty) :
                     ~ext.local /\ ext.ext_res = lz.res
            THEN {<<lz.res, ty>>} ELSE {}

\* The declarations of module m that have the name of id.
DeclaredByName(m, id) ==
    {d \in DOMAIN Decls(m) : HasIdent(Decls(m)[d]) /\ Name(Decls(m)[d].ident) = Name(id)}

\* C34: a type expression whose effective target is the module M it stands
\* in is taken as local when M declares the spelled name (the resolver is
\* not asked, the call goes on, and resolve_lazy queues that declaration),
\* and ends the call with Err(MissingDecl(M, name)) when M does not declare
\* it.
C34_LocalOrMissing ==
    [][\A at \in SelfTargets :
          IF DeclaredByName(at[1], at[2].ident) # {}
          THEN /\ result' = result
               /\ requests' = requests
               /\ modules' = modules
               /\ input.mode = "lazy" =>
                     \E d \in DeclaredByName(at[1], at[2].ident) : d \in lz'.local_next
          ELSE result' = Result("err", MissingDecl(at[1], Name(at[2].ident)))]_vars

\* resolve_lazy has walked `r::g` in f of the root r, which declares g: the
\* path is still there, g is queued, nothing was asked of the resolver and
\* the call goes on.
C34_Witness ==
    /\ input.mode = "lazy"
    /\ result.kind = "running"
    /\ requests = <<>>
    /\ R \in DOMAIN modules
    /\ Decls(R)[1].tys = <<TypeExpression(R, Decls(R)[2].ident)>>
    /\ Decls(R)[1].ident \in modules[R].treated_idents
    /\ Decls(R)[2].ident \notin modules[R].treated_idents
    /\ 2 \in lz.local_next

-----------------------------------------------------------------------------
(* C35 *)

\* The identifiers of keep that are not the defining identifier of a
\* declaration of the root.
NotEntries == {id \in input.keep : id \notin DOMAIN Fresh(input.resource).idents}

\* C35: resolve_lazy with a keep that holds an identifier that is not the
\* defining identifier of a declaration of the root returns
\* Err(MissingDecl(root resource, name of such an identifier)): it has asked
\* the resolver for nothing and returns no Resolutions.
C35_UnknownEntry ==
    (input.mode = "lazy" /\ NotEntries # {} /\ result.kind # "init") =>
        /\ \E id \in NotEntries :
              result = Result("err", MissingDecl(input.resource, Name(id)))
        /\ requests = <<>>
        /\ modules = EmptyMap
        /\ order = <<>>

\* resolve_lazy has returned for a keep of g and a cell named f that is not
\* the cell of the declaration f of the root.
C35_Witness ==
    /\ input.mode = "lazy"
    /\ Ended
    /\ input.root.global_declarations[2].ident \in input.keep
    /\ \E id \in NotEntries :
          /\ Name(id) = Name(input.root.global_declarations[1].ident)
          /\ result = Result("err", MissingDecl(R, "f"))

-----------------------------------------------------------------------------
(* C36 *)

\* C36, as stated: a second run of resolve_eager or of resolve_lazy on the
\* same arguments, the resolver answering the same, returns the order the
\* first run returned, and assemble gives the same sequence of
\* declarations, whatever the order in which the hash maps and hash sets
\* are iterated.
C36_Original ==
    run1.done =>
        /\ Returned => order = run1.order
        /\ (assembled.called /\ assembled.strip = run1.assembled.strip) =>
              assembled.wesl.global_declarations
                  = run1.assembled.wesl.global_declarations

-----------------------------------------------------------------------------
(* C37 *)

\* The module reached from module by descending into the submodule named
\* by each segment in turn, from the module reached so far; NoModule when a
\* step has no such submodule.
RECURSIVE Descend(_, _)
Descend(module, segments) ==
    IF segments = <<>> \/ module = NoModule THEN module
    ELSE Descend(submodule(module, Head(segments)), Tail(segments))

\* The registered packages of that name.
Registered(packages, name) == {i \in DOMAIN packages : packages[i].name = name}

\* C37, as stated: PkgResolver.resolve_source for pkg/seg1/../segN returns
\* the source of the module reached from the registered package named pkg
\* by descending into seg1, then seg2 of the module reached, and so on, and
\* returns FileNotFound when a step has no such submodule or no registered
\* package is named pkg.
C37_Original ==
    fcall.fn = "PkgResolver::resolve_source" =>
        LET packages == fcall.self
            named == Registered(packages, Head(fcall.arg))
            pkg == packages[CHOOSE i \in named : \A j \in named : i <= j]
        IN IF named = {} \/ Descend(pkg, Tail(fcall.arg)) = NoModule
           THEN ~fcall.out.ok /\ fcall.out.error.tag = "FileNotFound"
           ELSE /\ fcall.out.ok
                /\ fcall.out.source = Descend(pkg, Tail(fcall.arg)).source

-----------------------------------------------------------------------------
(* C38 *)

\* C38, as stated: normalisation is idempotent: Resource::new of the path
\* of a Resource returns that Resource, for every path the first
\* Resource::new was given, and the join of a Resource with the empty
\* suffix returns that Resource.
C38_Original ==
    /\ fcall.fn = "Resource::new(path())" => fcall.out = fcall.arg
    /\ (fcall.fn = "join" /\ fcall.arg = <<>>) => fcall.out = fcall.self

=============================================================================
